---- MODULE Spec2Model ----
(***************************************************************************)
(* Call orchestration engine of wopr-plugin-voice-call: the call state     *)
(* machine (CallStateMachine) and the registry of active calls             *)
(* (CallManager), with the asynchronous operations of CallManager split at *)
(* their await points.                                                     *)
(***************************************************************************)
EXTENDS Integers, Sequences, FiniteSets, TLC

\* ------------------------------------------------------------------ bounds
\* Number of call handles (record + fsm + bridge) alive at the same time.
MaxCalls == 2
\* Largest value of the clock read by Date.now().
MaxTime == 2
\* Longest state-machine history a caller of transition() builds.
MaxHist == 4
\* Number of asynchronous invocations suspended at the same time.
MaxInflight == 2
\* config.maxConcurrentCalls as configured in the explored deployments.
ConfigMaxConcurrentCalls == 1
\* Milliseconds the clock advances by between two readings that differ.
MsPerTick == 1200
\* STT sessions createSession returns to one bridge.
MaxSessions == 2
\* Chunks one STT session is sent.
MaxAudio == 2
\* Frames (FRAME_SIZE bytes each, the last one shorter) of an encoded reply.
NumFrames == 2
\* Final transcripts the STT sessions of one bridge deliver.
MaxTurns == 1
\* Handlers of one bridge suspended at the same time.
MaxBridgeOps == 2
\* Longest telnyx-signature-ed25519 header a request carries, in characters.
MaxSigLen == 3
\* Voice sessions of the voice-session plugin.
MaxVoiceSessions == 2
\* Longest buffer handed to resample, in 16-bit samples.
MaxSamples == 6

\* ------------------------------------------------------- program constants
\* call-manager.ts: this.maxConcurrent = config.maxConcurrentCalls || 10
DefaultMaxConcurrent == 10

\* The carrier call-control IDs the environment uses.
Ids == {"cc-001", "cc-002"}
CallIds == 1..MaxCalls
None == 0

VARIABLES
  now,          \* the clock Date.now() reads; never 0
  sm,           \* SpecFSM: a CallStateMachine used directly
  smInitial,    \* SpecFSM: the initialState its constructor was given
  smOk,         \* SpecFSM: number of transition() calls that succeeded
  smLast,       \* SpecFSM: the last call made on sm and its outcome
  activeCalls,  \* CallManager.activeCalls: callControlId -> handle (None = absent)
  calls,        \* the ActiveCall handles ever constructed, with what storage
                \* and the event bus have seen of each
  inflight,     \* continuations of the suspended asynchronous invocations
  telnyxClient, \* whether the manager was constructed with a carrier client
  ret,          \* what the step just taken returned to its caller, if anything
  maxConcurrentCalls,   \* config.maxConcurrentCalls; 0 when it is not set
  webhookSigningSecret, \* config.webhookSigningSecret is set
  plugin,       \* index.ts: the module's ctx, callManager, webhookHandler and
                \* what the host holds registered for it
  voicePlugin,  \* the voice-session plugin: its ctx, sessions, cleanups and
                \* what the host holds registered for it
  audio,        \* SpecResample: the last call of an audio function, its
                \* arguments and what it returned
  bridge,       \* SpecBridge: an AudioBridge driven directly
  bridgeOps     \* SpecBridge: its suspended handlers, each at its await

fsmVars == <<sm, smInitial, smOk, smLast>>
mgrVars == <<activeCalls, calls, inflight, telnyxClient, ret>>
bridgeVars == <<bridge, bridgeOps>>
cfgVars == <<maxConcurrentCalls, webhookSigningSecret, plugin, voicePlugin, audio>>
vars == <<now, sm, smInitial, smOk, smLast, activeCalls, calls, inflight,
          telnyxClient, ret, maxConcurrentCalls, webhookSigningSecret, plugin, voicePlugin, audio, bridge,
          bridgeOps>>

\* ------------------------------------------------------------ CallStateMachine
CallStates == {"ringing", "answering", "connected", "hold", "ending", "ended", "failed"}

VALID_TRANSITIONS_ResumeFromEnded ==
  [s \in CallStates |->
     CASE s = "ringing"   -> {"answering", "ending", "failed"}
       [] s = "answering" -> {"connected", "ending", "failed"}
       [] s = "connected" -> {"hold", "ending", "failed"}
       [] s = "hold"      -> {"connected", "ending", "failed"}
       [] s = "ending"    -> {"ended", "failed"}
       [] s = "ended"     -> {"failed"}
       [] s = "failed"    -> {}]

VALID_TRANSITIONS ==
  [s \in CallStates |->
     CASE s = "ringing"   -> {"answering", "ending", "failed"}
       [] s = "answering" -> {"connected", "ending", "failed"}
       [] s = "connected" -> {"hold", "ending", "failed"}
       [] s = "hold"      -> {"connected", "ending", "failed"}
       [] s = "ending"    -> {"ended", "failed"}
       [] s = "ended"     -> {}
       [] s = "failed"    -> {}]

\* new CallStateMachine(initialState)
CallStateMachine(initialState) == [state |-> initialState, history |-> <<>>]

isTerminal(m) == m.state = "ended" \/ m.state = "failed"

canTransition(m, to) == to \in VALID_TRANSITIONS[m.state]

\* transition(to) that moves without checking the table
transition_Unchecked(m, to, at) ==
  [threw |-> FALSE,
   fsm   |-> [state |-> to,
              history |-> Append(m.history, [from |-> m.state, to |-> to, at |-> at])]]

\* transition(to) that forgets to record the step
transition_NoHistory(m, to, at) ==
  IF ~canTransition(m, to)
    THEN [threw |-> TRUE, fsm |-> m]
    ELSE [threw |-> FALSE, fsm |-> [state |-> to, history |-> m.history]]

\* transition(to): throws, changing nothing, when the table forbids the step;
\* otherwise sets the state and pushes {from, to, at: Date.now()}.
transition(m, to, at) ==
  IF ~canTransition(m, to)
    THEN [threw |-> TRUE, fsm |-> m]
    ELSE [threw |-> FALSE,
          fsm   |-> [state |-> to,
                     history |-> Append(m.history, [from |-> m.state, to |-> to, at |-> at])]]

\* ------------------------------------------------- the clock (Date.now())
\* Date.now(), in milliseconds
DateNow == now * MsPerTick

Tick ==
  /\ now < MaxTime
  /\ now' = now + 1
  /\ ret' = [op |-> "none", value |-> "none", why |-> ""]
  /\ UNCHANGED <<fsmVars, activeCalls, calls, inflight, telnyxClient, cfgVars, bridgeVars>>

\* ------------------------------------------------------------- AudioBridge
\* new AudioBridge(opts): the fields of the class (sttSession is the index
\* of the session held, 0 for null) with what its collaborators have seen of
\* it: sock is the state of the carrier's media socket behind this.ws,
\* sessions the STT sessions createSession has returned (endAudio called,
\* close called, chunks received by sendAudio), forwardedWhilePlaying
\* whether a chunk went to sendAudio while playing was true, sent the
\* outbound frames written to the socket (the text they were synthesized
\* from, their index in the encoded audio), fired the calls of onCallEnd,
\* turns the final transcripts its sessions have delivered, cut the replies
\* whose playback an interruption or the closing of the bridge met.
AudioBridge ==
  [closed |-> FALSE, callEndFired |-> FALSE, ws |-> FALSE, sock |-> "none",
   streamId |-> FALSE, sttSession |-> 0, playing |-> FALSE, interrupted |-> FALSE,
   sessions |-> << >>, forwardedWhilePlaying |-> FALSE, sent |-> << >>, fired |-> 0,
   turns |-> 0, cut |-> {}]

\* cleanup() from `if (this.sttSession)` on, after the session's close()
\* has settled if one was held: drop the session, close the transport if
\* it is still open and drop the handle.
cleanupEnd(b) ==
  [b EXCEPT !.sttSession = 0,
            !.sock = IF b.ws /\ b.sock = "open" THEN "closing" ELSE b.sock,
            !.ws = FALSE]

\* cleanup() up to its first await: on a closed bridge nothing; otherwise
\* mark the bridge closed and not playing, then with a session held call its
\* endAudio() and close() and suspend, and without one finish at once.
cleanup(b) ==
  IF b.closed THEN b
  ELSE LET b1 == [b EXCEPT !.closed = TRUE, !.playing = FALSE] IN
       IF b.sttSession # 0
         THEN [b1 EXCEPT !.sessions[b.sttSession].ended = TRUE,
                         !.sessions[b.sttSession].closed = TRUE]
         ELSE cleanupEnd(b1)

\* cleanup() suspends at `await this.sttSession.close()`
cleanupSuspends(b) == ~b.closed /\ b.sttSession # 0

\* setWebSocket(ws)
setWebSocket(b) == [b EXCEPT !.ws = TRUE, !.sock = "open"]

\* ------------------------------------------------------------- CallManager
Undefined == -1

\* constructor: config.maxConcurrentCalls || 10
maxConcurrent ==
  IF maxConcurrentCalls = 0 THEN DefaultMaxConcurrent ELSE maxConcurrentCalls

\* { record, fsm, bridge } as built by a registration, with what the calls
\* repository (db), the event bus (ev) and the carrier (hangups: the
\* telnyxClient.hangup commands issued; hangupFailed: the last one was
\* rejected) have seen of the call.
ActiveCall(callControlId, direction, at) ==
  [ccid   |-> callControlId,
   record |-> [direction |-> direction, state |-> "ringing", startedAt |-> at,
               connectedAt |-> 0, endedAt |-> 0, endReason |-> "",
               durationMs |-> Undefined],
   fsm    |-> CallStateMachine("ringing"),
   bridge |-> AudioBridge,
   db     |-> [inserted |-> FALSE, updates |-> 0, updated |-> FALSE],
   ev     |-> [started |-> 0, ended |-> 0,
               durationMs |-> Undefined, durationSec |-> Undefined],
   hangups |-> 0, hangupFailed |-> FALSE,
   reg |-> "pending", answers |-> 0, pendingGreeting |-> FALSE,
   webhooks |-> << >>]

\* An empty slot
NoId == ""

NoHandle == ActiveCall(NoId, "none", 0)

\* The manager's state as a value, so that a handler which calls another
\* (a bridge firing onCallEnd -> endCall) composes in one step.
St == [activeCalls |-> activeCalls, calls |-> calls, inflight |-> inflight]

\* A handle nothing refers to any more (not in the map, no suspended
\* invocation holds it, no socket event can still reach its bridge) is
\* garbage: its slot is reclaimed.
Unreachable(st, c) ==
  /\ st.calls[c].ccid # NoId
  /\ \A i \in Ids : st.activeCalls[i] # c
  /\ \A p \in st.inflight : p.call # c
  /\ st.calls[c].bridge.sock \in {"none", "closed"}

Commit(st) ==
  /\ activeCalls' = st.activeCalls
  /\ calls' = [c \in CallIds |-> IF Unreachable(st, c) THEN NoHandle ELSE st.calls[c]]
  /\ inflight' = st.inflight

\* A suspended invocation: which operation, at which await, on which call.
Cont(op, pc, id, c, reason, skip) ==
  [op |-> op, pc |-> pc, id |-> id, call |-> c, reason |-> reason, skip |-> skip]

\* What an invocation returned; why tells apart the returns the caller
\* receives as the same value.
Returned(op, value, why) == [op |-> op, value |-> value, why |-> why]

NoReturn == Returned("none", "none", "")

FreeSlots(st) == {c \in CallIds : st.calls[c].ccid = NoId}

activeCallCount(st) == Cardinality({i \in Ids : st.activeCalls[i] # None})

canAcceptCall_OffByOne(st) == activeCallCount(st) <= maxConcurrent

canAcceptCall(st) == activeCallCount(st) < maxConcurrent

getCall(st, callControlId) == st.activeCalls[callControlId]

\* Both registrations, up to their first await: build the handle, put it in
\* the map and call repo.insert.
register(st, op, callControlId, direction) ==
  LET c == CHOOSE x \in FreeSlots(st) : \A y \in FreeSlots(st) : x <= y IN
  [st EXCEPT !.calls[c] = ActiveCall(callControlId, direction, DateNow),
             !.activeCalls[callControlId] = c,
             !.inflight = @ \cup {Cont(op, "insert", callControlId, c, "", FALSE)}]

\* registerInboundCall that puts the handle in the map before it looks at
\* the cap
registerInboundCall_LateCapCheck(st, callControlId) ==
  IF FreeSlots(st) = {} THEN st
  ELSE register(st, "registerInboundCall", callControlId, "inbound")

registerInboundCall(st, callControlId) ==
  IF ~canAcceptCall(st) THEN st
  ELSE register(st, "registerInboundCall", callControlId, "inbound")

initiateOutboundCall(st, callControlId) ==
  IF ~canAcceptCall(st) THEN st
  ELSE register(st, "initiateOutboundCall", callControlId, "outbound")

\* registerInboundCall's catch block, up to its await of bridge.cleanup()
registerCatch(st, p) ==
  [st EXCEPT !.activeCalls[p.id] = None,
             !.calls[p.call].bridge = cleanup(@),
             !.calls[p.call].reg = "failed",
             !.inflight = (@ \ {p}) \cup {[p EXCEPT !.pc = "catch"]}]

\* transitionCall that leaves record.state behind
transitionCall_StaleRecord(st, callControlId, newState) ==
  LET c == getCall(st, callControlId) IN
  IF c = None THEN st
  ELSE IF ~canTransition(st.calls[c].fsm, newState) THEN st
  ELSE [st EXCEPT !.calls[c].fsm = transition(@, newState, DateNow).fsm]

\* transitionCall that stamps connectedAt on every entry into connected
transitionCall_RestampConnected(st, callControlId, newState) ==
  LET c == getCall(st, callControlId) IN
  IF c = None THEN st
  ELSE IF ~canTransition(st.calls[c].fsm, newState) THEN st
  ELSE [st EXCEPT !.calls[c].fsm = transition(@, newState, DateNow).fsm,
                  !.calls[c].record.state = newState,
                  !.calls[c].record.connectedAt =
                     IF newState = "connected" THEN DateNow ELSE @]

transitionCall(st, callControlId, newState) ==
  LET c == getCall(st, callControlId) IN
  IF c = None THEN st
  ELSE IF ~canTransition(st.calls[c].fsm, newState) THEN st
  ELSE LET f == transition(st.calls[c].fsm, newState, DateNow).fsm IN
       [st EXCEPT !.calls[c].fsm = f,
                  !.calls[c].record.state = f.state,
                  !.calls[c].record.connectedAt =
                     IF newState = "connected" /\ @ = 0 THEN DateNow ELSE @]

\* endCall up to its first await: look the handle up, delete it from the
\* map, drive the state machine to ended, stamp the record, then either
\* issue the carrier hangup or go straight on to bridge.cleanup().
endCall(st, callControlId, reason, skipTelnyxHangup) ==
  LET c == getCall(st, callControlId) IN
  IF c = None THEN st
  ELSE
    LET h  == st.calls[c]
        f1 == IF ~isTerminal(h.fsm) /\ canTransition(h.fsm, "ending")
                THEN transition(h.fsm, "ending", DateNow).fsm ELSE h.fsm
        f2 == IF ~isTerminal(h.fsm) /\ canTransition(f1, "ended")
                THEN transition(f1, "ended", DateNow).fsm ELSE f1
        rec == [h.record EXCEPT
                  !.state = f2.state,
                  !.endedAt = DateNow,
                  !.endReason = reason,
                  !.durationMs = IF h.record.connectedAt # 0
                                   THEN DateNow - h.record.connectedAt ELSE 0]
        s1 == [st EXCEPT !.activeCalls[callControlId] = None,
                         !.calls[c].fsm = f2,
                         !.calls[c].record = rec]
    IN IF ~skipTelnyxHangup /\ telnyxClient
         THEN [s1 EXCEPT !.calls[c].hangups = @ + 1,
                         !.inflight = @ \cup
                            {Cont("endCall", "hangup", callControlId, c, reason, skipTelnyxHangup)}]
         ELSE [s1 EXCEPT !.calls[c].bridge = cleanup(@),
                         !.inflight = @ \cup
                            {Cont("endCall", "cleanup", callControlId, c, reason, skipTelnyxHangup)}]

\* ------------------------------------------------ CallManager: the actions
\* The callers of endCall: the hangup webhook and the bridge's onCallEnd
\* ("hangup", skipping the carrier hangup) and programmatic termination.
EndCallArgs == {<<"hangup", TRUE>>, <<"timeout", FALSE>>}

\* What index.ts registers with the host in init
CoreRegistrations == {"configSchema", "storage", "channelProvider", "extension", "provider"}

\* index.ts module state before init and after `new WebhookHandler(..)`,
\* the registrations of init made
PluginLoaded ==
  [ctx |-> FALSE, callManager |-> FALSE, webhookHandler |-> FALSE, registered |-> {}]

PluginInitialised ==
  [ctx |-> TRUE, callManager |-> TRUE, webhookHandler |-> TRUE, registered |-> CoreRegistrations]

\* The voice-session plugin's module state when loaded: no ctx, no session,
\* no cleanup function, nothing registered
VoicePluginLoaded ==
  [ctx |-> FALSE, sessions |-> {}, cleanups |-> 0, subscribed |-> FALSE, registered |-> {}]

MgrIdle ==
  /\ activeCalls = [i \in Ids |-> None]
  /\ calls = [c \in CallIds |-> NoHandle]
  /\ inflight = {}
  /\ telnyxClient = TRUE
  /\ ret = NoReturn

\* Everything but the signing secret, as index.ts constructs it (the
\* manager with a carrier client), no call yet.
Built ==
  /\ now = 1
  /\ smInitial = "ringing"
  /\ sm = CallStateMachine(smInitial)
  /\ smOk = 0
  /\ smLast = [op |-> "none", to |-> "ringing", result |-> "none"]
  /\ MgrIdle
  /\ maxConcurrentCalls = ConfigMaxConcurrentCalls
  /\ bridge = AudioBridge
  /\ bridgeOps = {}
  /\ plugin = PluginInitialised
  /\ voicePlugin = VoicePluginLoaded

\* and no audio function called yet
Constructed == Built /\ audio = [op |-> "none"]

\* The deployment without a webhook signing secret
Init == Constructed /\ webhookSigningSecret = FALSE

Frame == UNCHANGED <<now, fsmVars, telnyxClient, cfgVars, bridgeVars>>

\* The bounds leave room for the handle and the continuation a call creates.
Room == Cardinality(inflight) < MaxInflight

RegisterInboundCall(id) ==
  /\ canAcceptCall(St) => (FreeSlots(St) # {} /\ Room)
  /\ Commit(registerInboundCall(St, id))
  /\ ret' = IF canAcceptCall(St) THEN NoReturn
            ELSE Returned("registerInboundCall", "null", "capacity")
  /\ Frame

\* repo.insert settled: on success emit 'voice-call:started', else catch
RegisterInboundCall_afterInsert(p, ok) ==
  /\ p \in inflight /\ p.op = "registerInboundCall" /\ p.pc = "insert"
  /\ IF ok
       THEN Commit([St EXCEPT !.calls[p.call].db.inserted = TRUE,
                              !.calls[p.call].ev.started = @ + 1,
                              !.inflight = (@ \ {p}) \cup {[p EXCEPT !.pc = "emit"]}])
       ELSE Commit(registerCatch(St, p))
  /\ ret' = NoReturn
  /\ Frame

\* emitCustom settled: return the handle, or catch
RegisterInboundCall_afterEmit(p, ok) ==
  /\ p \in inflight /\ p.op = "registerInboundCall" /\ p.pc = "emit"
  /\ IF ok
       THEN /\ Commit([St EXCEPT !.calls[p.call].reg = "ok",
                                 !.inflight = @ \ {p}])
            /\ ret' = Returned(p.op, "handle", "")
       ELSE /\ Commit(registerCatch(St, p))
            /\ ret' = NoReturn
  /\ Frame

\* bridge.cleanup() of the catch block settled: return null
RegisterInboundCall_afterCatch(p) ==
  /\ p \in inflight /\ p.op = "registerInboundCall" /\ p.pc = "catch"
  /\ Commit([St EXCEPT !.inflight = @ \ {p}])
  /\ ret' = Returned(p.op, "null", "error")
  /\ Frame

InitiateOutboundCall(id) ==
  /\ canAcceptCall(St) => (FreeSlots(St) # {} /\ Room)
  /\ Commit(initiateOutboundCall(St, id))
  /\ ret' = IF canAcceptCall(St) THEN NoReturn
            ELSE Returned("initiateOutboundCall", "throw", "capacity")
  /\ Frame

\* repo.insert settled: on success emit, else the rejection propagates
InitiateOutboundCall_afterInsert(p, ok) ==
  /\ p \in inflight /\ p.op = "initiateOutboundCall" /\ p.pc = "insert"
  /\ IF ok
       THEN /\ Commit([St EXCEPT !.calls[p.call].db.inserted = TRUE,
                                 !.calls[p.call].ev.started = @ + 1,
                                 !.inflight = (@ \ {p}) \cup {[p EXCEPT !.pc = "emit"]}])
            /\ ret' = NoReturn
       ELSE /\ Commit([St EXCEPT !.inflight = @ \ {p}])
            /\ ret' = Returned(p.op, "throw", "error")
  /\ Frame

InitiateOutboundCall_afterEmit(p, ok) ==
  /\ p \in inflight /\ p.op = "initiateOutboundCall" /\ p.pc = "emit"
  /\ Commit([St EXCEPT !.calls[p.call].reg = IF ok THEN "ok" ELSE "failed",
                        !.inflight = @ \ {p}])
  /\ ret' = IF ok THEN Returned(p.op, "handle", "") ELSE Returned(p.op, "throw", "error")
  /\ Frame

\* transitionCall that calls fsm.transition without asking canTransition
transitionCallThrows_NoGuard(st, callControlId, newState) ==
  /\ getCall(st, callControlId) # None
  /\ transition(st.calls[getCall(st, callControlId)].fsm, newState, DateNow).threw

\* Whether transitionCall throws: fsm.transition is its only statement that
\* can, and it is reached only past the two early returns.
transitionCallThrows(st, callControlId, newState) ==
  /\ getCall(st, callControlId) # None
  /\ canTransition(st.calls[getCall(st, callControlId)].fsm, newState)
  /\ transition(st.calls[getCall(st, callControlId)].fsm, newState, DateNow).threw

TransitionCall(id, newState) ==
  /\ getCall(St, id) # None => Len(calls[getCall(St, id)].fsm.history) < MaxHist
  /\ Commit(transitionCall(St, id, newState))
  /\ ret' = IF transitionCallThrows(St, id, newState)
              THEN Returned("transitionCall", "throw", "error")
            ELSE IF getCall(St, id) = None
              THEN Returned("transitionCall", "void", "unknown")
            ELSE IF ~canTransition(calls[getCall(St, id)].fsm, newState)
              THEN Returned("transitionCall", "void", "skipped")
            ELSE Returned("transitionCall", "void", "applied")
  /\ Frame

\* endCall that leaves the handle in the map while it works
EndCall_NoRemove(id, reason, skipTelnyxHangup) ==
  /\ getCall(St, id) # None => Room
  /\ Commit([endCall(St, id, reason, skipTelnyxHangup) EXCEPT !.activeCalls = activeCalls])
  /\ ret' = IF getCall(St, id) # None THEN NoReturn ELSE Returned("endCall", "void", "unknown")
  /\ Frame

\* endCall that sends the carrier hangup whatever its caller asked
EndCall_AlwaysHangup(id, reason, skipTelnyxHangup) ==
  /\ getCall(St, id) # None => Room
  /\ Commit(endCall(St, id, reason, FALSE))
  /\ ret' = IF getCall(St, id) # None THEN NoReturn ELSE Returned("endCall", "void", "unknown")
  /\ Frame

\* endCall that jumps to ended without passing through ending
EndCall_SkipEnding(id, reason, skipTelnyxHangup) ==
  LET c == getCall(St, id)
      s == endCall(St, id, reason, skipTelnyxHangup) IN
  /\ c # None => Room
  /\ Commit(IF c = None \/ isTerminal(calls[c].fsm) THEN s
            ELSE [s EXCEPT !.calls[c].fsm = transition_Unchecked(calls[c].fsm, "ended", DateNow).fsm])
  /\ ret' = IF c # None THEN NoReturn ELSE Returned("endCall", "void", "unknown")
  /\ Frame

EndCall(id, reason, skipTelnyxHangup) ==
  /\ getCall(St, id) # None => Room
  /\ Commit(endCall(St, id, reason, skipTelnyxHangup))
  /\ ret' = IF getCall(St, id) # None THEN NoReturn ELSE Returned("endCall", "void", "unknown")
  /\ Frame

\* telnyxClient.hangup settled (a rejection is caught and logged): cleanup
EndCall_afterHangup(p, ok) ==
  /\ p \in inflight /\ p.op = "endCall" /\ p.pc = "hangup"
  /\ Commit([St EXCEPT !.calls[p.call].hangupFailed = ~ok,
                       !.calls[p.call].bridge = cleanup(@),
                       !.inflight = (@ \ {p}) \cup {[p EXCEPT !.pc = "cleanup"]}])
  /\ ret' = NoReturn
  /\ Frame

\* bridge.cleanup() settled: call repo.update with the final fields
EndCall_afterCleanup(p) ==
  /\ p \in inflight /\ p.op = "endCall" /\ p.pc = "cleanup"
  /\ Commit([St EXCEPT !.calls[p.call].db.updates = @ + 1,
                       !.inflight = (@ \ {p}) \cup {[p EXCEPT !.pc = "update"]}])
  /\ ret' = NoReturn
  /\ Frame

\* shutdownAll suspended at its await of Promise.all
ShutdownCont == Cont("shutdownAll", "all", NoId, None, "shutdown", FALSE)

\* The shutdownAll whose Promise.all holds the promise of invocation p:
\* Promise.all rejects as soon as one of its promises does.
\* plugin.shutdown suspended at `await callManager.shutdownAll()` or at
\* `await webhookHandler.shutdown()`
PluginShutdownCont(pc) == Cont("shutdown", pc, NoId, None, "shutdown", FALSE)

\* and, behind it, the plugin.shutdown that awaits that shutdownAll
AwaitingAll(p) ==
  IF p.reason = "shutdown"
    THEN {ShutdownCont, PluginShutdownCont("shutdownAll")} \cap inflight
    ELSE {}

\* What the rejection of endCall invocation p returns, and to whom
rejected(p) ==
  IF PluginShutdownCont("shutdownAll") \in AwaitingAll(p)
    THEN Returned("shutdown", "throw", "error")
  ELSE IF AwaitingAll(p) # {} THEN Returned("shutdownAll", "throw", "error")
  ELSE Returned(p.op, "throw", "error")

\* durationSec that rounds down
durationSec_Floor(durationMs) ==
  (IF durationMs = Undefined THEN 0 ELSE durationMs) \div 1000

\* Math.ceil((call.record.durationMs || 0) / 1000)
durationSec(durationMs) ==
  -((-(IF durationMs = Undefined THEN 0 ELSE durationMs)) \div 1000)

\* repo.update settled: emit 'voice-call:ended', or the rejection propagates
EndCall_afterUpdate(p, ok) ==
  /\ p \in inflight /\ p.op = "endCall" /\ p.pc = "update"
  /\ IF ok
       THEN /\ Commit([St EXCEPT !.calls[p.call].db.updated = TRUE,
                                 !.calls[p.call].ev.ended = @ + 1,
                                 !.calls[p.call].ev.durationMs =
                                    calls[p.call].record.durationMs,
                                 !.calls[p.call].ev.durationSec =
                                    durationSec(calls[p.call].record.durationMs),
                                 !.inflight = (@ \ {p}) \cup {[p EXCEPT !.pc = "emit"]}])
            /\ ret' = NoReturn
       ELSE /\ Commit([St EXCEPT !.inflight = @ \ ({p} \cup AwaitingAll(p))])
            /\ ret' = rejected(p)
  /\ Frame

EndCall_afterEmit(p, ok) ==
  /\ p \in inflight /\ p.op = "endCall" /\ p.pc = "emit"
  /\ Commit([St EXCEPT !.inflight = @ \ ({p} \cup (IF ok THEN {} ELSE AwaitingAll(p)))])
  /\ ret' = IF ok THEN Returned(p.op, "void", "") ELSE rejected(p)
  /\ Frame

\* shutdownAll up to its await: endCall(id, "shutdown") on every key of
\* the map, each run to its first await, then Promise.all of the promises.
RECURSIVE endAll(_, _)
endAll(st, ids) ==
  IF ids = {} THEN st
  ELSE LET id == CHOOSE x \in ids : TRUE IN
       endAll(endCall(st, id, "shutdown", FALSE), ids \ {id})

shutdownAll(st) ==
  LET ids == {i \in Ids : st.activeCalls[i] # None} IN
  IF ids = {} THEN st
  ELSE [endAll(st, ids) EXCEPT !.inflight = @ \cup {ShutdownCont}]

ShutdownAll ==
  /\ activeCallCount(St) > 0 =>
        /\ Cardinality(inflight) + activeCallCount(St) <= MaxInflight
        /\ \A p \in inflight : p.reason # "shutdown"
  /\ Commit(shutdownAll(St))
  /\ ret' = IF activeCallCount(St) > 0 THEN NoReturn
            ELSE Returned("shutdownAll", "void", "")
  /\ Frame

\* Promise.all resolved: every endCall that shutdownAll started has finished
ShutdownAll_afterAll(q) ==
  /\ q \in inflight /\ q = ShutdownCont
  /\ \A p \in inflight : ~(p.op = "endCall" /\ p.reason = "shutdown")
  /\ Commit([St EXCEPT !.inflight = @ \ {q}])
  /\ ret' = Returned("shutdownAll", "void", "")
  /\ Frame

\* The media socket server's "start" message for a call in the map
MediaWsStart(id) ==
  /\ getCall(St, id) # None
  /\ calls[getCall(St, id)].bridge.sock = "none"
  /\ Commit([St EXCEPT !.calls[getCall(St, id)].bridge = setWebSocket(@)])
  /\ ret' = NoReturn
  /\ Frame

\* cleanup, then onCallEnd unless it already fired:
\* onCallEnd = () => void this.endCall(callControlId, "hangup", true)
closeAndFire(st, c, sock) ==
  LET b  == st.calls[c].bridge
      b1 == [cleanup(b) EXCEPT !.callEndFired = TRUE,
                               !.fired = IF b.callEndFired THEN @ ELSE @ + 1]
      s1 == [st EXCEPT !.calls[c].bridge = [b1 EXCEPT !.sock = IF sock = "" THEN @ ELSE sock]]
  IN IF b.callEndFired THEN s1 ELSE endCall(s1, st.calls[c].ccid, "hangup", TRUE)

FireRoom(c) ==
  calls[c].bridge.callEndFired \/ getCall(St, calls[c].ccid) = None \/ Room

\* handleMediaMessage({event: "stop"}) on an open bridge
BridgeStop(c) ==
  /\ calls[c].bridge.ws /\ calls[c].bridge.sock = "open"
  /\ ~calls[c].bridge.closed
  /\ FireRoom(c)
  /\ Commit(closeAndFire(St, c, ""))
  /\ ret' = NoReturn
  /\ Frame

\* the socket's "close" event, whoever closed it
BridgeWsClose(c) ==
  /\ calls[c].bridge.sock \in {"open", "closing"}
  /\ FireRoom(c)
  /\ Commit(closeAndFire(St, c, "closed"))
  /\ ret' = NoReturn
  /\ Frame

\* The awaited promises settling: every continuation of a suspended invocation
SettleRegistration ==
  \/ \E p \in inflight, ok \in BOOLEAN : RegisterInboundCall_afterInsert(p, ok)
  \/ \E p \in inflight, ok \in BOOLEAN : RegisterInboundCall_afterEmit(p, ok)
  \/ \E p \in inflight : RegisterInboundCall_afterCatch(p)

SettleOutbound ==
  \/ \E p \in inflight, ok \in BOOLEAN : InitiateOutboundCall_afterInsert(p, ok)
  \/ \E p \in inflight, ok \in BOOLEAN : InitiateOutboundCall_afterEmit(p, ok)

SettleHangup == \E p \in inflight, ok \in BOOLEAN : EndCall_afterHangup(p, ok)

SettleEndCall ==
  \/ \E p \in inflight : EndCall_afterCleanup(p)
  \/ \E p \in inflight, ok \in BOOLEAN : EndCall_afterUpdate(p, ok)
  \/ \E p \in inflight, ok \in BOOLEAN : EndCall_afterEmit(p, ok)

Settle == SettleRegistration \/ SettleOutbound \/ SettleHangup \/ SettleEndCall

\* The media socket of a call: attach, "stop" message, close event
Media ==
  \/ \E id \in Ids : MediaWsStart(id)
  \/ \E c \in CallIds : BridgeStop(c)
  \/ \E c \in CallIds : BridgeWsClose(c)

\* SpecRegistry: the registry under registrations and terminations of
\* several calls, interleaved at every await. endCall is called by anyone,
\* with either argument pair (a bridge's onCallEnd calls it like the hangup
\* webhook does).
RegistryNext ==
  \/ \E id \in Ids : RegisterInboundCall(id)
  \/ \E id \in Ids : InitiateOutboundCall(id)
  \/ \E id \in Ids, a \in EndCallArgs : EndCall(id, a[1], a[2])
  \/ Settle

SpecRegistry == Init /\ [][RegistryNext]_vars

\* SpecShutdown: the registry under registrations and shutdownAll
ShutdownNext ==
  \/ \E id \in Ids : RegisterInboundCall(id)
  \/ \E id \in Ids : InitiateOutboundCall(id)
  \/ \E id \in Ids : EndCall(id, "hangup", TRUE)
  \/ ShutdownAll
  \/ \E q \in inflight : ShutdownAll_afterAll(q)
  \/ Settle

SpecShutdown == Init /\ [][ShutdownNext]_vars

\* SpecCall: the life of one call, from its registration to the last
\* continuation of its termination, with every operation of the manager on
\* its call-control ID interleaved at every await. The carrier does not
\* reuse the ID while a handle of the call is alive.
TheCall == "cc-001"

NoLiveHandle == \A c \in CallIds : calls[c].ccid = NoId

CallOps ==
  \/ NoLiveHandle /\ RegisterInboundCall(TheCall)
  \/ NoLiveHandle /\ InitiateOutboundCall(TheCall)
  \/ \E s \in CallStates \ {"ringing"} : TransitionCall(TheCall, s)
  \/ \E a \in EndCallArgs : EndCall(TheCall, a[1], a[2])
  \/ Settle

CallNext == CallOps \/ Media

SpecCall == Init /\ [][CallNext]_vars

\* SpecClock: the manager's operations on one call with the clock advancing
\* between the steps (endCall is called by anyone, as in SpecRegistry).
ClockNext == Tick \/ CallOps

SpecClock == Init /\ [][ClockNext]_vars

\* -------------------------------------- SpecFSM: one machine, used directly
NoCall == [op |-> "none", to |-> "ringing", result |-> "none"]

FsmInit ==
  /\ now = 1
  /\ smInitial \in CallStates
  /\ sm = CallStateMachine(smInitial)
  /\ smOk = 0
  /\ smLast = NoCall
  /\ MgrIdle
  /\ maxConcurrentCalls = ConfigMaxConcurrentCalls
  /\ bridge = AudioBridge
  /\ bridgeOps = {}
  /\ plugin = PluginInitialised
  /\ voicePlugin = VoicePluginLoaded
  /\ audio = [op |-> "none"]
  /\ webhookSigningSecret = FALSE

FsmCanTransition(to) ==
  /\ smLast' = [op |-> "canTransition", to |-> to,
                result |-> IF canTransition(sm, to) THEN "true" ELSE "false"]
  /\ UNCHANGED <<now, sm, smInitial, smOk, mgrVars, cfgVars, bridgeVars>>

FsmTransition(to) ==
  LET r == transition(sm, to, DateNow) IN
  /\ Len(r.fsm.history) <= MaxHist
  /\ sm' = r.fsm
  /\ smOk' = IF r.threw THEN smOk ELSE smOk + 1
  /\ smLast' = [op |-> "transition", to |-> to,
                result |-> IF r.threw THEN "Error" ELSE "ok"]
  /\ UNCHANGED <<now, smInitial, mgrVars, cfgVars, bridgeVars>>

FsmNext ==
  \/ Tick
  \/ \E to \in CallStates : FsmCanTransition(to)
  \/ \E to \in CallStates : FsmTransition(to)

SpecFSM == FsmInit /\ [][FsmNext]_vars

\* ================================================================ properties

\* The transition table as the specification prints it
TransitionTable ==
  [s \in CallStates |->
     CASE s = "ringing"   -> {"answering", "ending", "failed"}
       [] s = "answering" -> {"connected", "ending", "failed"}
       [] s = "connected" -> {"hold", "ending", "failed"}
       [] s = "hold"      -> {"connected", "ending", "failed"}
       [] s = "ending"    -> {"ended", "failed"}
       [] s = "ended"     -> {}
       [] s = "failed"    -> {}]

\* C5: for every current state s and every target t of the seven states,
\* canTransition(t) in state s is true iff the table lists t for s; the
\* answer a caller of canTransition received says the same.
C5_CanTransitionMatchesTable ==
  /\ \A t \in CallStates : canTransition(sm, t) <=> t \in TransitionTable[sm.state]
  /\ smLast.op = "canTransition" =>
       (smLast.result = "true" <=> smLast.to \in TransitionTable[sm.state])

\* canTransition("connected") asked of a machine put on hold answered true
C5_Witness ==
  /\ sm.state = "hold" /\ Len(sm.history) > 0
  /\ smLast = [op |-> "canTransition", to |-> "connected", result |-> "true"]

\* C6: transition(t) fails with an error whenever t is not permitted from
\* the current state, and the failed call leaves the state and the history
\* as they were; every transition attempted from ended or failed fails, so
\* a terminal machine never changes state again.
C6_InvalidTransitionFails ==
  [][/\ \A to \in CallStates :
          (FsmTransition(to) /\ to \notin TransitionTable[sm.state])
            => (smLast'.result = "Error" /\ sm' = sm)
     /\ \A to \in CallStates :
          (FsmTransition(to) /\ sm.state \in {"ended", "failed"})
            => smLast'.result = "Error"
     /\ sm.state \in {"ended", "failed"} => sm' = sm]_vars

\* a machine that was driven into ended has just refused a transition
C6_Witness ==
  /\ sm.state = "ended" /\ smInitial = "ringing" /\ Len(sm.history) = 2
  /\ smLast = [op |-> "transition", to |-> "connected", result |-> "Error"]

\* The history of the machine describes the transitions performed
HistoryWellFormed ==
  LET h == sm.history IN
  /\ Len(h) = smOk
  /\ \A i \in 1..(Len(h) - 1) : h[i].to = h[i + 1].from /\ h[i].at <= h[i + 1].at
  /\ Len(h) > 0 => (h[1].from = smInitial /\ h[Len(h)].to = sm.state)
  /\ Len(h) = 0 => sm.state = smInitial

\* A step keeps every entry already in the history where it was, and a
\* transition that succeeded appends its own entry at the end
HistoryAppendOnly ==
  /\ Len(sm'.history) >= Len(sm.history)
  /\ SubSeq(sm'.history, 1, Len(sm.history)) = sm.history
  /\ \A to \in CallStates :
       (FsmTransition(to) /\ smLast'.result = "ok")
         => sm'.history = Append(sm.history, [from |-> sm.state, to |-> to, at |-> DateNow])
  /\ \A to \in CallStates :
       (FsmTransition(to) /\ smLast'.result = "Error") => sm'.history = sm.history

\* C7: after n successful transitions the history has exactly n entries in
\* the order performed; each entry's to is the next entry's from, the first
\* from is the initial state, the last to is the current state, timestamps
\* are non-decreasing, and no entry is ever removed, reordered or altered.
C7_HistoryIsTheSequencePerformed ==
  []HistoryWellFormed /\ [][HistoryAppendOnly]_vars

\* three transitions succeeded at different times, with a refused one since
C7_Witness ==
  /\ Len(sm.history) = 3 /\ smOk = 3
  /\ sm.history[1].at < sm.history[3].at
  /\ smLast.result = "Error"

\* ------------------------------------------------- properties of the manager

Live(c) == calls[c].ccid # NoId

\* The suspended endCall invocations working on handle c, on call-control ID id
EndingOf(c) == {p \in inflight : p.op = "endCall" /\ p.call = c}

EndingId(id) == \E p \in inflight : p.op = "endCall" /\ p.id = id

\* C1: when endCall is invoked twice concurrently for the same active
\* call-control ID, exactly one 'voice-call:ended' event is emitted and
\* exactly one repository update is performed for that call. Stated for the
\* interleaving in which the second invocation has just returned when the
\* first one finishes, on a call whose registration was persisted: the step
\* that ends the first invocation leaves a call with one update and one
\* ended event.
C1_TwoEndCallsOneEndedEvent ==
  [][\A p \in inflight :
       (/\ p.op = "endCall" /\ p.id = TheCall
        /\ calls[p.call].db.inserted
        /\ ret = Returned("endCall", "void", "unknown")
        /\ \A q \in inflight' : ~(q.op = "endCall" /\ q.call = p.call))
       => (calls[p.call].db.updates = 1 /\ calls[p.call].ev.ended = 1)]_vars

C3_RegistryWithinCap ==
  /\ [](/\ activeCallCount(St) <= maxConcurrent
        /\ canAcceptCall(St) <=> activeCallCount(St) < maxConcurrent)
  /\ [][\A id \in Ids :
          /\ RegisterInboundCall(id) =>
               (ret'.why = "capacity" <=> ~(activeCallCount(St) < maxConcurrent))
          /\ InitiateOutboundCall(id) =>
               (ret'.why = "capacity" <=> ~(activeCallCount(St) < maxConcurrent))]_vars

\* the registry is full while one registration and one termination are
\* suspended
C3_Witness ==
  /\ activeCallCount(St) = maxConcurrent
  /\ \E p, q \in inflight : /\ p.op \in {"registerInboundCall", "initiateOutboundCall"}
                            /\ q.op = "endCall"
                            /\ p.call # q.call

\* C4: a registration attempted at the cap is rejected (registerInboundCall
\* returns null, initiateOutboundCall throws the capacity error) and changes
\* nothing: the registry, every call's record, persistence and events, and
\* the set of suspended invocations are as before.
C4_RejectedAtCapChangesNothing ==
  [][\A id \in Ids :
       ~(activeCallCount(St) < maxConcurrent) =>
          /\ RegisterInboundCall(id) =>
               /\ ret' = Returned("registerInboundCall", "null", "capacity")
               /\ UNCHANGED <<activeCalls, calls, inflight>>
          /\ InitiateOutboundCall(id) =>
               /\ ret' = Returned("initiateOutboundCall", "throw", "capacity")
               /\ UNCHANGED <<activeCalls, calls, inflight>>]_vars

\* an inbound registration has just been turned away from a full registry
\* while another invocation is suspended
C4_Witness ==
  /\ ret = Returned("registerInboundCall", "null", "capacity")
  /\ activeCallCount(St) = maxConcurrent
  /\ inflight # {}

\* C8: for every call handle, between the manager's operations and at
\* every suspension point inside them, the record's state field equals the
\* state machine's current state.
C8_RecordStateIsFsmState ==
  \A c \in CallIds : Live(c) => calls[c].record.state = calls[c].fsm.state

\* a call put on hold is being ended, and a transitionCall has just returned
C8_Witness ==
  \E c \in CallIds :
    /\ Live(c) /\ EndingOf(c) # {}
    /\ \E i \in 1..Len(calls[c].fsm.history) : calls[c].fsm.history[i].to = "hold"
    /\ calls[c].record.state = "ended"
    /\ ret = Returned("transitionCall", "void", "unknown")

\* C9: connectedAt is unset while the call has never been connected, is set
\* by the first transitionCall into connected to the time of that
\* transition, and keeps that value on every later step: resumes from hold,
\* other transitions, endCall and its continuations.
C9_ConnectedAtSetOnce ==
  /\ [](\A c \in CallIds : Live(c) =>
          LET h == calls[c].fsm.history
              into == {i \in 1..Len(h) : h[i].to = "connected"} IN
          /\ calls[c].record.connectedAt = 0 <=> into = {}
          /\ \A i \in into : (\A j \in into : i <= j) => calls[c].record.connectedAt = h[i].at)
  /\ [][\A c \in CallIds : (Live(c) /\ calls'[c].ccid # NoId) =>
          /\ calls[c].record.connectedAt # 0
               => calls'[c].record.connectedAt = calls[c].record.connectedAt
          /\ calls'[c].record.connectedAt # calls[c].record.connectedAt
               => /\ calls[c].fsm.state # "connected"
                  /\ calls'[c].fsm.state = "connected"
                  /\ calls'[c].record.connectedAt = DateNow
                  /\ TransitionCall(TheCall, "connected")]_vars

\* a call connected, was put on hold, resumed later and is being ended
\* later still
C9_Witness ==
  \E c \in CallIds :
    /\ Live(c) /\ EndingOf(c) # {}
    /\ Len(calls[c].fsm.history) >= 4
    /\ calls[c].fsm.history[3].to = "hold"
    /\ calls[c].fsm.history[4].to = "connected"
    /\ calls[c].record.connectedAt < calls[c].fsm.history[4].at
    /\ calls[c].record.connectedAt < calls[c].record.endedAt

\* C10: endCall on a known call whose machine is not terminal ends it in
\* state ended through ending (the history gains ending then ended, or only
\* ended if it was already ending) and the record's state is ended from
\* then on; a call already failed keeps state failed.
C10_EndCallEndsThroughEnding ==
  /\ [](\A p \in inflight : p.op = "endCall" =>
          /\ calls[p.call].fsm.state \in {"ended", "failed"}
          /\ calls[p.call].record.state = calls[p.call].fsm.state)
  /\ [][\A a \in EndCallArgs :
          (EndCall(TheCall, a[1], a[2]) /\ getCall(St, TheCall) # None) =>
            LET old == calls[getCall(St, TheCall)].fsm
                new == calls'[getCall(St, TheCall)].fsm
                rec == calls'[getCall(St, TheCall)].record
                e(from, to) == [from |-> from, to |-> to, at |-> DateNow]
            IN CASE old.state \in {"ended", "failed"} ->
                      new = old /\ rec.state = old.state
                 [] old.state = "ending" ->
                      /\ new.state = "ended" /\ rec.state = "ended"
                      /\ new.history = old.history \o <<e("ending", "ended")>>
                 [] OTHER ->
                      /\ new.state = "ended" /\ rec.state = "ended"
                      /\ new.history = old.history
                           \o <<e(old.state, "ending"), e("ending", "ended")>>]_vars

\* a connected call is being ended: its history closes with connected ->
\* ending -> ended
C10_Witness ==
  \E p \in inflight :
    /\ p.op = "endCall"
    /\ LET h == calls[p.call].fsm.history IN
         /\ Len(h) = 4
         /\ h[3] .from = "connected" /\ h[3].to = "ending"
         /\ h[4].from = "ending" /\ h[4].to = "ended"
    /\ calls[p.call].record.state = "ended"

\* C11: on endCall the record's durationMs is endedAt - connectedAt when the
\* call was ever connected and 0 when it never was, and is never negative;
\* the 'voice-call:ended' event carries that durationMs and a durationSec
\* that is durationMs / 1000 rounded up to a whole second.
C11_DurationIsEndedMinusConnected ==
  \A c \in CallIds : (Live(c) /\ calls[c].record.endedAt # 0) =>
    LET h    == calls[c].fsm.history
        rec  == calls[c].record
        ever == \E i \in 1..Len(h) : h[i].to = "connected"
        ev   == calls[c].ev
    IN /\ ever => rec.durationMs = rec.endedAt - rec.connectedAt
       /\ ~ever => rec.durationMs = 0
       /\ rec.durationMs >= 0
       /\ ev.ended > 0 =>
            /\ ev.durationMs = rec.durationMs
            /\ ev.durationSec * 1000 >= rec.durationMs
            /\ (ev.durationSec - 1) * 1000 < rec.durationMs

\* the ended event of a call that was connected for a time that is not a
\* whole number of seconds has been emitted
C11_Witness ==
  \E c \in CallIds :
    /\ Live(c) /\ calls[c].ev.ended = 1
    /\ calls[c].record.connectedAt # 0
    /\ calls[c].record.durationMs = calls[c].record.endedAt - calls[c].record.connectedAt
    /\ calls[c].record.durationMs % 1000 # 0
    /\ calls[c].ev.durationSec * 1000 > calls[c].record.durationMs

\* C12: transitionCall never throws; for an unknown call-control ID it
\* changes nothing, and for a known call with a target the table does not
\* permit from the current state it changes nothing either (machine state,
\* history, record state and connectedAt are as before).
C12_TransitionCallNeverThrows ==
  [][\A s \in CallStates :
       TransitionCall(TheCall, s) =>
         /\ ret'.op = "transitionCall" /\ ret'.value = "void"
         /\ getCall(St, TheCall) = None
              => UNCHANGED <<activeCalls, calls, inflight>>
         /\ (/\ getCall(St, TheCall) # None
             /\ s \notin TransitionTable[calls[getCall(St, TheCall)].fsm.state])
              => UNCHANGED <<activeCalls, calls, inflight>>]_vars

\* a transitionCall with a target the table forbids has just returned on a
\* connected call
C12_Witness ==
  /\ ret = Returned("transitionCall", "void", "skipped")
  /\ getCall(St, TheCall) # None
  /\ calls[getCall(St, TheCall)].fsm.state = "connected"
  /\ calls[getCall(St, TheCall)].record.connectedAt # 0

\* C13: if persisting the record fails during registerInboundCall, the
\* handle is removed from the registry, the call's bridge is torn down, and
\* the failure is propagated to the caller, who can tell it from a capacity
\* rejection.
C13_InsertFailurePropagates ==
  [][\A p \in inflight :
       (RegisterInboundCall_afterCatch(p) /\ ~calls[p.call].db.inserted) =>
         /\ activeCalls'[p.id] # p.call
         /\ calls[p.call].bridge.closed
         /\ ret'.op = "registerInboundCall" /\ ret'.value = "throw"]_vars

RegistrationOf(c) ==
  {p \in inflight : p.call = c /\ p.op \in {"registerInboundCall", "initiateOutboundCall"}}

\* C14: once a registration attempt has finished, inbound or outbound,
\* succeeded or failed, the registry holds no handle whose record was not
\* inserted: a persistence failure leaves the call untracked and its bridge
\* torn down.
C14_NoUninsertedHandleTracked ==
  \A id \in Ids :
    (activeCalls[id] # None /\ RegistrationOf(activeCalls[id]) = {})
      => calls[activeCalls[id]].db.inserted

\* C16: a failure of the repository update inside endCall does not block
\* local cleanup: the call is out of the registry, its bridge is closed, and
\* endCall does not propagate the failure.
C16_UpdateFailureNotPropagated ==
  [][\A p \in inflight :
       EndCall_afterUpdate(p, FALSE) =>
         /\ activeCalls[p.id] # p.call
         /\ calls[p.call].bridge.closed
         /\ ret'.value # "throw"]_vars

\* C15: a failure of the carrier hangup inside endCall does not fail or stop
\* endCall: the handle is already removed, and when that endCall finishes
\* the bridge is torn down, the final record fields are persisted and the
\* 'voice-call:ended' event was emitted.
C15_HangupFailureDoesNotStopEndCall ==
  [][\A p \in inflight :
       (/\ p.op = "endCall" /\ calls[p.call].hangupFailed
        /\ calls[p.call].db.inserted
        /\ \A q \in inflight' : ~(q.op = "endCall" /\ q.call = p.call))
       => /\ activeCalls[p.id] # p.call
          /\ calls[p.call].bridge.closed
          /\ calls[p.call].db.updated
          /\ calls[p.call].ev.ended = 1]_vars

\* The handles that are the same call before and after the step
Stays(c) == Live(c) /\ calls'[c].ccid # NoId

C18_ShutdownAllEndsEveryCall ==
  [][\A q \in inflight :
       (q.op = "shutdownAll" /\ q \notin inflight') =>
         \A p \in inflight :
           (p.op = "endCall" /\ p.reason = "shutdown" /\ calls[p.call].db.inserted) =>
             /\ activeCalls[p.id] # p.call
             /\ calls[p.call].record.endReason = "shutdown"
             /\ calls[p.call].ev.ended = 1]_vars

\* --------------------------------------------------------- WebhookHandler
\* The dispatcher's handlers of call.initiated, call.answered and
\* call.hangup. A handle's webhooks field lists the events the dispatcher
\* has applied to it, answers the answerCall commands issued for it.
\* config.recordByDefault is unset: handleCallAnswered skips startRecording.
HandlerOps == {"handleCallInitiated", "handleCallAnswered"}

Handlers == {p \in inflight : p.op \in HandlerOps}

\* Room for one more registration or termination next to the handlers
HandlerRoom == Cardinality(inflight \ Handlers) < MaxInflight

Handling(id) == \E p \in Handlers : p.id = id

\* handleCallInitiated up to `await this.resolveTenantId(to)`
HandleCallInitiated(id) ==
  /\ ~Handling(id)
  /\ Commit([St EXCEPT !.inflight = @ \cup
                {Cont("handleCallInitiated", "tenant", id, None, "", FALSE)}])
  /\ ret' = NoReturn
  /\ Frame

\* resolveTenantId settled (a failed lookup gives "default"): the handler
\* calls registerInboundCall, whose synchronous part runs here. At the cap
\* it returns null at once and the handler issues telnyxClient.hangup.
HandleCallInitiated_afterTenant(q) ==
  /\ q \in inflight /\ q.op = "handleCallInitiated" /\ q.pc = "tenant"
  /\ IF canAcceptCall(St)
       THEN /\ FreeSlots(St) # {} /\ HandlerRoom
            /\ LET s1 == registerInboundCall(St, q.id)
                   c  == s1.activeCalls[q.id]
               IN Commit([s1 EXCEPT
                    !.calls[c].webhooks = Append(@, "call.initiated"),
                    !.inflight = (@ \ {q}) \cup {[q EXCEPT !.pc = "register", !.call = c]}])
       ELSE Commit([St EXCEPT !.inflight = (@ \ {q}) \cup {[q EXCEPT !.pc = "reject"]}])
  /\ ret' = NoReturn
  /\ Frame

\* registerInboundCall settled: null -> telnyxClient.hangup; a handle ->
\* transitionCall(id, "answering") and telnyxClient.answerCall
HandleCallInitiated_afterRegister(q) ==
  /\ q \in inflight /\ q.op = "handleCallInitiated" /\ q.pc = "register"
  /\ calls[q.call].reg # "pending"
  /\ IF calls[q.call].reg = "failed"
       THEN Commit([St EXCEPT !.inflight = (@ \ {q}) \cup {[q EXCEPT !.pc = "reject"]}])
       ELSE Commit([transitionCall(St, q.id, "answering") EXCEPT
                      !.calls[q.call].answers = @ + 1,
                      !.inflight = (@ \ {q}) \cup {[q EXCEPT !.pc = "answer"]}])
  /\ ret' = NoReturn
  /\ Frame

\* telnyxClient.hangup of the rejection settled: respond rejected/capacity;
\* a rejected command leaves the handler by the exception
HandleCallInitiated_afterReject(q, ok) ==
  /\ q \in inflight /\ q.op = "handleCallInitiated" /\ q.pc = "reject"
  /\ Commit([St EXCEPT !.inflight = @ \ {q}])
  /\ ret' = IF ok THEN Returned(q.op, "rejected", "capacity")
            ELSE Returned(q.op, "throw", "error")
  /\ Frame

\* telnyxClient.answerCall settled: respond 200, or leave by the exception
HandleCallInitiated_afterAnswer(q, ok) ==
  /\ q \in inflight /\ q.op = "handleCallInitiated" /\ q.pc = "answer"
  /\ Commit([St EXCEPT !.inflight = @ \ {q}])
  /\ ret' = IF ok THEN Returned(q.op, "200", "") ELSE Returned(q.op, "throw", "error")
  /\ Frame

\* handleCallAnswered up to `await this.telnyxClient.startMediaStream(..)`
HandleCallAnswered(id) ==
  /\ ~Handling(id)
  /\ LET s1 == transitionCall(St, id, "connected")
         c  == getCall(s1, id)
     IN IF c = None
          THEN /\ Commit(s1)
               /\ ret' = Returned("handleCallAnswered", "200", "unknown")
          ELSE /\ Commit([s1 EXCEPT
                     !.calls[c].webhooks = Append(@, "call.answered"),
                     !.inflight = @ \cup
                        {Cont("handleCallAnswered", "stream", id, c, "", FALSE)}])
               /\ ret' = NoReturn
  /\ Frame

\* startMediaStream settled: stash the greeting and respond 200
HandleCallAnswered_afterStream(q, ok) ==
  /\ q \in inflight /\ q.op = "handleCallAnswered" /\ q.pc = "stream"
  /\ IF ok
       THEN /\ Commit([St EXCEPT !.calls[q.call].pendingGreeting = TRUE,
                                 !.inflight = @ \ {q}])
            /\ ret' = Returned(q.op, "200", "")
       ELSE /\ Commit([St EXCEPT !.inflight = @ \ {q}])
            /\ ret' = Returned(q.op, "throw", "error")
  /\ Frame

\* handleCallHangup: await callManager.endCall(callControlId, "hangup", true)
HandleCallHangup(id) ==
  /\ getCall(St, id) # None => HandlerRoom
  /\ LET c  == getCall(St, id)
         s1 == endCall(St, id, "hangup", TRUE)
     IN IF c = None
          THEN /\ Commit(s1)
               /\ ret' = Returned("endCall", "void", "unknown")
          ELSE /\ Commit([s1 EXCEPT !.calls[c].webhooks = Append(@, "call.hangup")])
               /\ ret' = NoReturn
  /\ Frame

SettleHandlers ==
  \/ \E q \in inflight : HandleCallInitiated_afterTenant(q)
  \/ \E q \in inflight : HandleCallInitiated_afterRegister(q)
  \/ \E q \in inflight, ok \in BOOLEAN : HandleCallInitiated_afterReject(q, ok)
  \/ \E q \in inflight, ok \in BOOLEAN : HandleCallInitiated_afterAnswer(q, ok)
  \/ \E q \in inflight, ok \in BOOLEAN : HandleCallAnswered_afterStream(q, ok)

\* What the carrier sends about a call: call.initiated once for a new call,
\* call.answered once after an answer command, call.hangup once.
HandlesOf(id) == {c \in CallIds : calls[c].ccid = id}

Applied(c, event) == \E i \in DOMAIN calls[c].webhooks : calls[c].webhooks[i] = event

CarrierInitiated(id) == HandlesOf(id) = {} /\ HandleCallInitiated(id)

CarrierAnswered(id) ==
  /\ \A c \in HandlesOf(id) :
       /\ calls[c].answers > 0 \/ calls[c].record.direction = "outbound"
       /\ ~Applied(c, "call.answered")
  /\ HandleCallAnswered(id)

CarrierHangup(id) ==
  /\ \A c \in HandlesOf(id) : ~Applied(c, "call.hangup")
  /\ HandleCallHangup(id)

\* SpecWebhook: the webhooks of one inbound call, the clock advancing
\* between the steps.
WebhookNext ==
  \/ Tick
  \/ CarrierInitiated(TheCall)
  \/ CarrierAnswered(TheCall)
  \/ CarrierHangup(TheCall)
  \/ SettleHandlers
  \/ SettleRegistration
  \/ SettleEndCall

SpecWebhook == Init /\ [][WebhookNext]_vars
\* C19: the webhooks call.initiated (inbound), call.answered, call.hangup
\* of one call, applied in that order, drive its state ringing -> answering
\* -> connected -> ending -> ended, set connectedAt no later than endedAt
\* with durationMs >= 0, leave the registry without it and emit one
\* 'voice-call:started' and one 'voice-call:ended' event. Stated at the step
\* that completes the hangup webhook's endCall.
C19_WebhookSequenceDrivesCall ==
  [][\A p \in inflight :
       (/\ p.op = "endCall" /\ p.reason = "hangup"
        /\ \A q \in inflight' : ~(q.op = "endCall" /\ q.call = p.call)
        /\ calls[p.call].webhooks = <<"call.initiated", "call.answered", "call.hangup">>)
       => LET h == calls[p.call] IN
          /\ h.fsm.history =
               [i \in 1..4 |->
                  [from |-> <<"ringing", "answering", "connected", "ending">>[i],
                   to   |-> <<"answering", "connected", "ending", "ended">>[i],
                   at   |-> h.fsm.history[i].at]]
          /\ h.record.state = "ended"
          /\ h.record.connectedAt # 0
          /\ h.record.connectedAt <= h.record.endedAt
          /\ h.record.durationMs >= 0
          /\ activeCalls[p.id] # p.call
          /\ h.ev.started = 1
          /\ h.ev.ended = 1]_vars
\* SpecAdmission: the webhooks of two inbound calls handled concurrently,
\* interleaved at every await of the handlers, of the registrations and of
\* the terminations.
AdmissionNext ==
  \/ \E id \in Ids : CarrierInitiated(id)
  \/ \E id \in Ids : CarrierAnswered(id)
  \/ \E id \in Ids : CarrierHangup(id)
  \/ SettleHandlers
  \/ SettleRegistration
  \/ SettleEndCall

SpecAdmission == Init /\ [][AdmissionNext]_vars

\* C20: with two call.initiated events handled concurrently at the cap of
\* one call, the handler that reaches registerInboundCall while the other
\* call holds the slot registers nothing and changes no call, issues the
\* carrier hangup for its own call, and its response reports rejection with
\* reason "capacity"; the handler that finds the slot free registers its
\* call within the cap, and answers it once the registration has succeeded.
C20_SecondInitiatedRejectedAtCapacity ==
  [][\A q \in inflight :
       (q.op = "handleCallInitiated" /\ q \notin inflight') =>
         /\ (q.pc = "tenant" /\ ~canAcceptCall(St)) =>
              /\ \E id \in Ids \ {q.id} : activeCalls[id] # None
              /\ activeCalls' = activeCalls /\ calls' = calls
              /\ [q EXCEPT !.pc = "reject"] \in inflight'
         /\ (q.pc = "tenant" /\ canAcceptCall(St)) =>
              /\ activeCalls'[q.id] # None
              /\ Cardinality({id \in Ids : activeCalls'[id] # None}) <= maxConcurrent
              /\ \A id \in Ids \ {q.id} : activeCalls'[id] = activeCalls[id]
         /\ (q.pc = "register" /\ calls[q.call].reg = "ok") =>
              /\ calls'[q.call].answers = 1
              /\ [q EXCEPT !.pc = "answer"] \in inflight'
         /\ (q.pc = "reject" /\ q.call = None) =>
              /\ activeCalls' = activeCalls /\ calls' = calls
              /\ ret' = Returned(q.op, "rejected", "capacity")]_vars
\* SpecAnswered: the webhooks of one call, inbound (registered by
\* call.initiated) or outbound (registered by initiateOutboundCall once the
\* carrier has placed it), the clock advancing between the steps.
AnsweredNext ==
  \/ WebhookNext
  \/ HandlesOf(TheCall) = {} /\ ~Handling(TheCall) /\ InitiateOutboundCall(TheCall)
  \/ SettleOutbound

SpecAnswered == Init /\ [][AnsweredNext]_vars

\* C21: the step in which the dispatcher handles call.answered for a call
\* in the registry, inbound or outbound, leaves the call connected with
\* connectedAt set, and the endCall that later completes on a call so
\* answered has stamped durationMs = endedAt - connectedAt.
C21_AnsweredCallIsConnected ==
  [][/\ \A q \in inflight' \ inflight :
          q.op = "handleCallAnswered" =>
            /\ calls'[q.call].fsm.state = "connected"
            /\ calls'[q.call].record.state = "connected"
            /\ calls'[q.call].record.connectedAt # 0
     /\ \A p \in inflight \ inflight' :
          (p.op = "endCall" /\ Applied(p.call, "call.answered")) =>
            /\ calls[p.call].record.connectedAt # 0
            /\ calls[p.call].record.durationMs =
                 calls[p.call].record.endedAt - calls[p.call].record.connectedAt]_vars
\* handleStreamingStarted: drops the pending greeting of a known call
HandleStreamingStarted(id) ==
  /\ LET c == getCall(St, id) IN
     IF c = None THEN Commit(St)
     ELSE Commit([St EXCEPT !.calls[c].pendingGreeting = FALSE,
                            !.calls[c].webhooks = Append(@, "streaming.started")])
  /\ ret' = Returned("handleStreamingStarted", "200",
                     IF getCall(St, id) = None THEN "unknown" ELSE "")
  /\ Frame

\* What the carrier does once start-media-stream was commanded for a call:
\* it sends streaming.started, and it connects the media socket, whose
\* start message names the call (startMediaWsServer -> setWebSocket).
Streaming(id) == \A c \in HandlesOf(id) : Applied(c, "call.answered")

CarrierStreamingStarted(id) ==
  /\ Streaming(id)
  /\ \A c \in HandlesOf(id) : ~Applied(c, "streaming.started")
  /\ HandleStreamingStarted(id)

CarrierMediaConnected(id) == Streaming(id) /\ MediaWsStart(id)

\* SpecGreeting: one inbound call from call.initiated to its end, with the
\* media socket of the call. Every step that can be taken eventually is.
GreetingNext ==
  \/ CarrierInitiated(TheCall)
  \/ CarrierAnswered(TheCall)
  \/ CarrierStreamingStarted(TheCall)
  \/ CarrierMediaConnected(TheCall)
  \/ CarrierHangup(TheCall)
  \/ \E c \in CallIds : BridgeStop(c)
  \/ \E c \in CallIds : BridgeWsClose(c)
  \/ SettleHandlers
  \/ SettleRegistration
  \/ SettleEndCall

SpecGreeting == Init /\ [][GreetingNext]_vars /\ WF_vars(GreetingNext)

\* The outbound frames of a call's bridge that carry the greeting
GreetingFrames(c) ==
  {i \in DOMAIN calls[c].bridge.sent : calls[c].bridge.sent[i].text = "greeting"}

\* C22: once a call has been answered and the carrier's media transport has
\* attached to its bridge, the greeting is eventually sent to the caller as
\* outbound audio frames.
C22_GreetingEventuallySpoken ==
  \A c \in CallIds :
    (Applied(c, "call.answered") /\ calls[c].bridge.sock # "none")
      ~> (GreetingFrames(c) # {})

\* ------------------------------------------------ AudioBridge, on its own
\* The bridge as its callers drive it: setWebSocket, handleMediaMessage
\* with any message, the socket's close event, cleanup, and the final
\* transcripts of its STT sessions; each handler is split at its awaits.
BSt == [b |-> bridge, ops |-> bridgeOps]

Min(a, b) == IF a < b THEN a ELSE b

\* playTTSResponse between `this.playing = true` and its return
InPlayback(p) == p.op = "handleFinalTranscript" /\ p.pc \in {"synthesize", "pace"}

\* The state a step leaves; cut records the replies whose playback was
\* under way while the bridge was interrupted or closed
BCommit(st) ==
  /\ bridge' = [st.b EXCEPT !.cut = @ \cup
                   IF st.b.interrupted \/ st.b.closed
                     THEN {p.turn : p \in {q \in st.ops : InPlayback(q)}}
                     ELSE {}]
  /\ bridgeOps' = st.ops

BridgeFrame ==
  UNCHANGED <<now, fsmVars, activeCalls, calls, inflight, telnyxClient, cfgVars>>

BridgeRoom == Cardinality(bridgeOps) < MaxBridgeOps

\* A suspended handler: which one, at which await, at which frame; turn is
\* the transcript a handleFinalTranscript answers
BOp(op, pc, i) ==
  [k  |-> CHOOSE k \in 1..(MaxBridgeOps + 1) : \A p \in bridgeOps : p.k # k,
   op |-> op, pc |-> pc, i |-> i, turn |-> 0]

Suspend(st, op, pc, i) == [st EXCEPT !.ops = @ \cup {BOp(op, pc, i)}]

Resume(st, p, pc, i) == [st EXCEPT !.ops = (@ \ {p}) \cup {[p EXCEPT !.pc = pc, !.i = i]}]

Done(st, p) == [st EXCEPT !.ops = @ \ {p}]

\* The messages of the media socket: event, and for media its track and
\* whether it carries a chunk
BridgeMessages ==
  {[event |-> "start", track |-> "", chunk |-> FALSE],
   [event |-> "stop", track |-> "", chunk |-> FALSE],
   [event |-> "mark", track |-> "", chunk |-> FALSE]}
  \cup [event : {"media"}, track : {"inbound", "outbound"}, chunk : BOOLEAN]

\* `if (!this.callEndFired) { this.callEndFired = true; this.onCallEnd(); }`
\* without its guard
fireCallEnd_Unguarded(b) == [b EXCEPT !.callEndFired = TRUE, !.fired = @ + 1]

\* `if (!this.callEndFired) { this.callEndFired = true; this.onCallEnd(); }`
fireCallEnd(b) ==
  IF b.callEndFired THEN b ELSE [b EXCEPT !.callEndFired = TRUE, !.fired = @ + 1]

\* case "media" forwarding the chunk before it looks at playing
handleMedia_ForwardFirst(b, msg) ==
  IF msg.track = "inbound" /\ msg.chunk
    THEN LET b1 == IF b.sttSession # 0
                     THEN [b EXCEPT !.sessions[b.sttSession].audio = @ + 1,
                                    !.forwardedWhilePlaying = @ \/ b.playing]
                     ELSE b
         IN IF b1.playing THEN [b1 EXCEPT !.interrupted = TRUE, !.playing = FALSE] ELSE b1
    ELSE b

\* case "media": barge-in, then decode, resample and this.sttSession?.sendAudio
handleMedia(b, msg) ==
  IF msg.track = "inbound" /\ msg.chunk
    THEN LET b1 == IF b.playing THEN [b EXCEPT !.interrupted = TRUE, !.playing = FALSE] ELSE b
         IN IF b1.sttSession # 0
              THEN [b1 EXCEPT !.sessions[b1.sttSession].audio = @ + 1,
                              !.forwardedWhilePlaying = @ \/ b1.playing]
              ELSE b1
    ELSE b

\* startSTTSession up to `await stt.createSession(..)`; without a provider
\* it logs and returns
startSTTSession(st, p, provider) ==
  IF provider THEN Resume(st, p, "createSession", 0) ELSE Done(st, p)

\* handleFinalTranscript after playTTSResponse returned: close the session
\* held, if any, then start a new one
restartSTT(st, p, provider) ==
  IF st.b.sttSession # 0
    THEN Resume([st EXCEPT !.b.sessions[st.b.sttSession].ended = TRUE,
                           !.b.sessions[st.b.sttSession].closed = TRUE],
                p, "sttClose", 0)
    ELSE startSTTSession(st, p, provider)

\* `const FRAME_SIZE = 160`, and the length of the encoded reply: its last
\* frame is a short one
FRAME_SIZE == 160

ReplyLength == NumFrames * FRAME_SIZE - 1

\* sendAudioChunk: drops the frame without an open socket; a frame sent is
\* mulaw.subarray(i, Math.min(i + FRAME_SIZE, mulaw.length)) of the reply to
\* transcript k, i counted in frames
sendAudioChunk(b, k, i) ==
  IF b.ws /\ b.sock = "open"
    THEN [b EXCEPT !.sent = Append(@, [text |-> "reply", reply |-> k, index |-> i,
                                       offset |-> i * FRAME_SIZE,
                                       size |-> Min((i + 1) * FRAME_SIZE, ReplyLength)
                                                  - i * FRAME_SIZE])]
    ELSE b

\* playTTSResponse's loop at frame i, and what follows its end
playFrames(st, p, i, provider) ==
  IF i * FRAME_SIZE >= ReplyLength \/ st.b.interrupted \/ st.b.closed
    THEN restartSTT([st EXCEPT !.b.playing = FALSE], p, provider)
    ELSE Resume([st EXCEPT !.b = sendAudioChunk(@, p.turn, i)], p, "pace", i + 1)

\* setWebSocket(ws) on a bridge no transport was attached to
SetWebSocket ==
  /\ bridge.sock = "none" /\ ~bridge.closed
  /\ BCommit([BSt EXCEPT !.b = setWebSocket(@)])
  /\ ret' = Returned("setWebSocket", "void", "")
  /\ BridgeFrame

\* handleMediaMessage(msg) up to its first await
HandleMediaMessage(msg, provider) ==
  /\ IF bridge.closed
       THEN /\ BCommit(BSt)
            /\ ret' = Returned("handleMediaMessage", "void", "closed")
       ELSE
         CASE msg.event = "start" ->
                /\ provider => BridgeRoom
                /\ LET s1 == [BSt EXCEPT !.b.streamId = TRUE]
                   IN BCommit(IF provider
                                THEN Suspend(s1, "handleMediaMessage", "createSession", 0)
                                ELSE s1)
                /\ ret' = IF provider THEN NoReturn
                          ELSE Returned("handleMediaMessage", "void", msg.event)
           [] msg.event = "media" ->
                /\ bridge.sttSession # 0 =>
                     bridge.sessions[bridge.sttSession].audio < MaxAudio
                /\ BCommit([BSt EXCEPT !.b = handleMedia(@, msg)])
                /\ ret' = Returned("handleMediaMessage", "void", msg.event)
           [] msg.event = "stop" ->
                /\ cleanupSuspends(bridge) => BridgeRoom
                /\ IF cleanupSuspends(bridge)
                     THEN /\ BCommit(Suspend([BSt EXCEPT !.b = cleanup(@)],
                                             "handleMediaMessage", "sttClose", 0))
                          /\ ret' = NoReturn
                     ELSE /\ BCommit([BSt EXCEPT !.b = fireCallEnd(cleanup(@))])
                          /\ ret' = Returned("handleMediaMessage", "void", msg.event)
           [] OTHER ->
                /\ BCommit(BSt)
                /\ ret' = Returned("handleMediaMessage", "void", msg.event)
  /\ BridgeFrame

\* ws.on("close"): void this.cleanup().then(() => fire)
WsClose ==
  /\ bridge.sock \in {"open", "closing"}
  /\ cleanupSuspends(bridge) => BridgeRoom
  /\ LET s1 == [BSt EXCEPT !.b.sock = "closed"]
     IN IF cleanupSuspends(bridge)
          THEN BCommit(Suspend([s1 EXCEPT !.b = cleanup(@)], "wsClose", "sttClose", 0))
          ELSE BCommit([s1 EXCEPT !.b = fireCallEnd(cleanup(@))])
  /\ ret' = NoReturn
  /\ BridgeFrame

\* cleanup() called by the owner of the bridge (CallManager.endCall)
Cleanup ==
  /\ cleanupSuspends(bridge) => BridgeRoom
  /\ IF cleanupSuspends(bridge)
       THEN /\ BCommit(Suspend([BSt EXCEPT !.b = cleanup(@)], "cleanup", "sttClose", 0))
            /\ ret' = NoReturn
       ELSE /\ BCommit([BSt EXCEPT !.b = cleanup(@)])
            /\ ret' = Returned("cleanup", "void", IF bridge.closed THEN "closed" ELSE "")
  /\ BridgeFrame

\* `await this.sttSession.close()` settled, in cleanup (then the caller
\* goes on: stop and the close event fire onCallEnd) or in
\* handleFinalTranscript (then it starts the next session)
SttClosed(p, provider) ==
  /\ p \in bridgeOps /\ p.pc = "sttClose"
  /\ IF p.op = "handleFinalTranscript"
       THEN /\ BCommit(startSTTSession([BSt EXCEPT !.b.sttSession = 0], p, provider))
            /\ ret' = NoReturn
       ELSE /\ BCommit(Done([BSt EXCEPT !.b = IF p.op = "cleanup" THEN cleanupEnd(@)
                                               ELSE fireCallEnd(cleanupEnd(@))], p))
            /\ ret' = Returned(p.op, "void", "")
  /\ BridgeFrame

\* `await stt.createSession(..)` settled: store the session and register
\* the transcript callback on it; a rejection leaves startSTTSession
SessionCreated(p, ok) ==
  /\ p \in bridgeOps /\ p.pc = "createSession"
  /\ ok => Len(bridge.sessions) < MaxSessions
  /\ IF ok
       THEN /\ BCommit(Done([BSt EXCEPT
                   !.b.sessions = Append(@, [ended |-> FALSE, closed |-> FALSE, audio |-> 0]),
                   !.b.sttSession = Len(bridge.sessions) + 1], p))
            /\ ret' = Returned(p.op, "void", "")
       ELSE /\ BCommit(Done(BSt, p))
            /\ ret' = Returned(p.op, IF p.op = "handleFinalTranscript" THEN "void" ELSE "throw",
                               "error")
  /\ BridgeFrame

\* session s delivers a final, non-blank transcript: handleFinalTranscript
\* up to `await this.onTranscript(text)`
HandleFinalTranscript(s, maxTurns) ==
  /\ s \in DOMAIN bridge.sessions /\ ~bridge.sessions[s].closed
  /\ bridge.turns < maxTurns
  /\ ~bridge.closed => BridgeRoom
  /\ LET s1 == [BSt EXCEPT !.b.turns = @ + 1]
     IN IF bridge.closed
          THEN /\ BCommit(s1)
               /\ ret' = Returned("handleFinalTranscript", "void", "closed")
          ELSE /\ BCommit([s1 EXCEPT !.ops = @ \cup
                          {[BOp("handleFinalTranscript", "onTranscript", 0)
                              EXCEPT !.turn = s1.b.turns]}])
               /\ ret' = NoReturn
  /\ BridgeFrame

SttFinalTranscript(s) == HandleFinalTranscript(s, MaxTurns)

\* onTranscript settled: with a reply on an open bridge playTTSResponse
\* runs up to `await tts.synthesize(..)`; without a TTS provider it returns
\* at once and the session is restarted
Replied(p, reply, tts, provider) ==
  /\ p \in bridgeOps /\ p.pc = "onTranscript"
  /\ IF reply = "throw" \/ reply = "" \/ bridge.closed
       THEN /\ BCommit(Done(BSt, p))
            /\ ret' = Returned(p.op, "void", IF reply = "throw" THEN "error" ELSE "skipped")
       ELSE /\ BCommit(IF tts
                         THEN Resume([BSt EXCEPT !.b.playing = TRUE,
                                                 !.b.interrupted = FALSE],
                                     p, "synthesize", 0)
                         ELSE restartSTT(BSt, p, provider))
            /\ ret' = NoReturn
  /\ BridgeFrame

\* synthesize settled: a rejection is caught by handleFinalTranscript; an
\* interrupted or closed bridge returns from playTTSResponse; otherwise the
\* first frame is sent
Synthesized(p, ok, provider) ==
  /\ p \in bridgeOps /\ p.pc = "synthesize"
  /\ IF ~ok
       THEN /\ BCommit(Done(BSt, p))
            /\ ret' = Returned(p.op, "void", "error")
       ELSE /\ BCommit(IF bridge.interrupted \/ bridge.closed
                         THEN restartSTT(BSt, p, provider)
                         ELSE playFrames(BSt, p, 0, provider))
            /\ ret' = NoReturn
  /\ BridgeFrame

\* the 20 ms pause after a frame elapsed
Paced(p, provider) ==
  /\ p \in bridgeOps /\ p.pc = "pace"
  /\ BCommit(playFrames(BSt, p, p.i, provider))
  /\ ret' = NoReturn
  /\ BridgeFrame

\* SpecBridge: one bridge under every sequence and interleaving of its
\* events.
BridgeNext ==
  \/ SetWebSocket
  \/ \E msg \in BridgeMessages, provider \in BOOLEAN : HandleMediaMessage(msg, provider)
  \/ WsClose
  \/ Cleanup
  \/ \E p \in bridgeOps, provider \in BOOLEAN : SttClosed(p, provider)
  \/ \E p \in bridgeOps, ok \in BOOLEAN : SessionCreated(p, ok)
  \/ \E s \in 1..MaxSessions : SttFinalTranscript(s)
  \/ \E p \in bridgeOps, reply \in {"text", "", "throw"}, tts \in BOOLEAN, provider \in BOOLEAN :
       Replied(p, reply, tts, provider)
  \/ \E p \in bridgeOps, ok \in BOOLEAN, provider \in BOOLEAN : Synthesized(p, ok, provider)
  \/ \E p \in bridgeOps, provider \in BOOLEAN : Paced(p, provider)

SpecBridge == Init /\ [][BridgeNext]_vars
\* A media message of the inbound track that carries audio
InboundAudio(msg) == msg.event = "media" /\ msg.track = "inbound" /\ msg.chunk

\* C23: barge-in happens on, and only on, inbound-track media. Handling an
\* inbound frame while playing sets interrupted and clears playing in that
\* invocation, and the chunk reaches the STT session only afterwards (no
\* chunk is ever forwarded while playing is still true); an inbound frame
\* is forwarded to the session held; an outbound-track frame changes
\* nothing of the bridge; and no other step sets interrupted.
C23_BargeInOnInboundMediaOnly ==
  [][/\ \A msg \in BridgeMessages, provider \in BOOLEAN :
          (HandleMediaMessage(msg, provider) /\ ~bridge.closed /\ msg.event = "media") =>
            IF InboundAudio(msg)
              THEN /\ bridge.playing => (bridge'.interrupted /\ ~bridge'.playing)
                   /\ ~bridge.playing =>
                        (bridge'.interrupted = bridge.interrupted /\ ~bridge'.playing)
                   /\ bridge.sttSession # 0 =>
                        bridge'.sessions[bridge.sttSession].audio =
                          bridge.sessions[bridge.sttSession].audio + 1
              ELSE bridge' = bridge
     /\ ~bridge'.forwardedWhilePlaying
     /\ (bridge'.interrupted /\ ~bridge.interrupted) =>
          /\ bridge.playing
          /\ \E msg \in BridgeMessages, provider \in BOOLEAN :
               InboundAudio(msg) /\ HandleMediaMessage(msg, provider)]_vars

\* the caller spoke during a playback: the frame was forwarded to the
\* session and the playback, still suspended, is interrupted
C23_Witness ==
  /\ ret = Returned("handleMediaMessage", "void", "media")
  /\ bridge.interrupted /\ ~bridge.playing /\ ~bridge.closed
  /\ bridge.sttSession # 0 /\ bridge.sessions[bridge.sttSession].audio > 0
  /\ \E p \in bridgeOps : p.op = "handleFinalTranscript" /\ p.pc \in {"synthesize", "pace"}
CleanupCallers == {"handleMediaMessage", "wsClose", "cleanup"}

CleanupDone ==
  /\ bridge.closed
  /\ \A p \in bridgeOps : ~(p.pc = "sttClose" /\ p.op \in CleanupCallers)

\* C25: once cleanup has completed the bridge is closed, not playing, holds
\* no STT session and no transport handle, every STT session it opened has
\* been ended and closed and its transport is no longer open; a further
\* cleanup and every later start, media or stop message change nothing (no
\* session created, no audio forwarded, no callback fired).
C25_ClosedBridgeIsInert ==
  /\ [](CleanupDone =>
          /\ ~bridge.playing /\ bridge.sttSession = 0
          /\ ~bridge.ws /\ bridge.sock # "open"
          /\ \A s \in DOMAIN bridge.sessions :
               bridge.sessions[s].ended /\ bridge.sessions[s].closed)
  /\ [][(/\ CleanupDone
         /\ ret' \in {Returned("cleanup", "void", "closed"),
                      Returned("handleMediaMessage", "void", "closed")})
          => (bridge' = bridge /\ bridgeOps' = bridgeOps)]_vars

\* ------------------------------------------- webhook requests and dispatch
\* The webhook events about one call: event_type, payload.direction (of
\* call.initiated) and payload.call_control_id
Event(type, direction, id) == [event_type |-> type, direction |-> direction, id |-> id]

EventTypes ==
  <<"call.initiated", "call.answered", "streaming.started", "call.hangup",
    "streaming.stopped", "call.bridged">>

Events ==
  {Event("call.initiated", d, TheCall) : d \in {"incoming", "outgoing"}}
  \cup {Event(EventTypes[i], "", TheCall) : i \in DOMAIN EventTypes \ {1}}

\* A raw request body: the JSON text of an event, or text that is not JSON
Bodies == [json : {TRUE}, event : Events] \cup {[json |-> FALSE, event |-> Event("", "", "")]}

Timestamps == {"", "1730000000"}

\* Characters of a signature header: two hexadecimal digits and one
\* character that is not a hexadecimal digit
HexDigits == <<"0", "1">>

SigChars == {"0", "1", "z"}

Signatures == UNION {[1..n -> SigChars] : n \in 0..MaxSigLen}

IsHexDigit(ch) == \E v \in DOMAIN HexDigits : HexDigits[v] = ch

hexValue(ch) == (CHOOSE v \in DOMAIN HexDigits : HexDigits[v] = ch) - 1

\* Buffer.from(str, "hex"): decodes pairs of digits and stops, without
\* throwing, at the first pair that is not two hexadecimal digits; a last
\* odd character is dropped
RECURSIVE BufferFromHex(_)
BufferFromHex(str) ==
  IF Len(str) < 2 \/ ~IsHexDigit(str[1]) \/ ~IsHexDigit(str[2]) THEN << >>
  ELSE <<Len(HexDigits) * hexValue(str[1]) + hexValue(str[2])>>
         \o BufferFromHex(SubSeq(str, 3, Len(str)))

\* digest("hex") of a buffer
RECURSIVE toHex(_)
toHex(buf) ==
  IF buf = << >> THEN << >>
  ELSE <<HexDigits[(buf[1] \div Len(HexDigits)) + 1], HexDigits[(buf[1] % Len(HexDigits)) + 1]>>
         \o toHex(Tail(buf))

\* createHmac("sha256", secret).update(`${timestamp}.${rawBody}`): a digest
\* of one byte that depends on the timestamp and on the body
createHmac(timestamp, rawBody) ==
  LET t == IF timestamp = "" THEN 0 ELSE 1
      e == IF rawBody.json
             THEN CHOOSE i \in DOMAIN EventTypes : EventTypes[i] = rawBody.event.event_type
             ELSE 0
      d == IF rawBody.event.direction = "outgoing" THEN 1 ELSE 0
  IN <<(t + e + d) % (Len(HexDigits) * Len(HexDigits))>>

\* timingSafeEqual(a, b): throws on buffers of different lengths
timingSafeEqual(a, b) ==
  IF Len(a) # Len(b) THEN "throw" ELSE IF a = b THEN "true" ELSE "false"

\* verifyWebhookSignature(rawBody, signature, timestamp); a missing header
\* is the empty string
verifyWebhookSignature(rawBody, signature, timestamp) ==
  IF ~webhookSigningSecret THEN TRUE
  ELSE IF signature = << >> \/ timestamp = "" THEN FALSE
  ELSE LET expected == toHex(createHmac(timestamp, rawBody))
       IN timingSafeEqual(BufferFromHex(expected), BufferFromHex(signature)) = "true"

\* A response that touches nothing
Respond(op, status, why) ==
  /\ Commit(St)
  /\ ret' = Returned(op, status, why)
  /\ Frame

\* handleWebhook dispatching a call.initiated that is not incoming like an
\* incoming one
HandleWebhook_RegisterOutbound(event) ==
  CASE event.event_type = "call.initiated" -> HandleCallInitiated(event.id)
    [] event.event_type = "call.answered" -> HandleCallAnswered(event.id)
    [] event.event_type = "streaming.started" -> HandleStreamingStarted(event.id)
    [] event.event_type = "call.hangup" -> HandleCallHangup(event.id)
    [] OTHER -> Respond("handleWebhook", "200", event.event_type)

\* handleWebhook(event): the switch on event_type; handleCallInitiated
\* returns 200 at once for a direction other than incoming
HandleWebhook(event) ==
  CASE event.event_type = "call.initiated" ->
         IF event.direction = "incoming" THEN HandleCallInitiated(event.id)
         ELSE Respond("handleWebhook", "200", "outbound")
    [] event.event_type = "call.answered" -> HandleCallAnswered(event.id)
    [] event.event_type = "streaming.started" -> HandleStreamingStarted(event.id)
    [] event.event_type = "call.hangup" -> HandleCallHangup(event.id)
    [] OTHER -> Respond("handleWebhook", "200", event.event_type)

\* handleWebhookRequest(rawBody, headers)
HandleWebhookRequest(rawBody, signature, timestamp) ==
  IF ~verifyWebhookSignature(rawBody, signature, timestamp)
    THEN Respond("handleWebhookRequest", "401", "signature")
    ELSE IF ~rawBody.json
      THEN Respond("handleWebhookRequest", "400", "json")
      ELSE HandleWebhook(rawBody.event)

\* The events the carrier has reason to send about a call (each once, in
\* the order of the call's life); a sender without the secret sends anything
MaySend(event) ==
  CASE event.event_type = "call.initiated" ->
         event.direction = "incoming" => HandlesOf(event.id) = {}
    [] event.event_type = "call.answered" ->
         \A c \in HandlesOf(event.id) :
           /\ calls[c].answers > 0 \/ calls[c].record.direction = "outbound"
           /\ ~Applied(c, "call.answered")
    [] event.event_type = "streaming.started" ->
         Streaming(event.id) /\ \A c \in HandlesOf(event.id) : ~Applied(c, "streaming.started")
    [] event.event_type = "call.hangup" ->
         \A c \in HandlesOf(event.id) : ~Applied(c, "call.hangup")
    [] OTHER -> TRUE

\* SpecRequest: requests with any body, signature and timestamp reaching
\* the webhook entry point of a deployment with or without a signing secret
RequestInit == Constructed /\ webhookSigningSecret \in BOOLEAN

RequestNext ==
  \/ \E rawBody \in Bodies, signature \in Signatures, timestamp \in Timestamps :
       /\ rawBody.json => MaySend(rawBody.event)
       /\ HandleWebhookRequest(rawBody, signature, timestamp)
  \/ SettleHandlers
  \/ SettleRegistration
  \/ SettleEndCall

SpecRequest == RequestInit /\ [][RequestNext]_vars

\* A signature header that is the hexadecimal text of the expected digest
ValidSignature(rawBody, signature, timestamp) ==
  /\ signature # << >>
  /\ timestamp # ""
  /\ signature = toHex(createHmac(timestamp, rawBody))

\* C26: with a signing secret configured, a request whose signature or
\* timestamp is missing, whose signature is not well-formed hexadecimal or
\* is not the expected value is answered 401 and leaves the registry, the
\* calls and the invocations in flight untouched (nothing is parsed, no
\* manager operation runs, no carrier command is issued); with no secret
\* configured no request is answered 401.
C26_UnverifiedRequestRejected ==
  [][\A rawBody \in Bodies, signature \in Signatures, timestamp \in Timestamps :
       HandleWebhookRequest(rawBody, signature, timestamp) =>
         /\ (webhookSigningSecret /\ ~ValidSignature(rawBody, signature, timestamp)) =>
              /\ ret'.value = "401"
              /\ UNCHANGED <<activeCalls, calls, inflight>>
         /\ ~webhookSigningSecret => ret'.value # "401"]_vars

\* C27: an invocation of a webhook handler never ends by a propagated
\* failure: whatever the carrier commands it issues answer (answerCall,
\* the hangup of a rejection, startMediaStream), it ends with a response.
C27_HandlersAlwaysRespond ==
  ret.op \in HandlerOps \cup {"handleWebhook", "handleWebhookRequest"} => ret.value # "throw"

\* The events the handler acknowledges without acting
NoOpEvents ==
  {e \in Events : \/ e.event_type = "call.initiated" /\ e.direction # "incoming"
                  \/ e.event_type \notin {"call.initiated", "call.answered",
                                          "streaming.started", "call.hangup"}}

\* C28: a call.initiated that is not incoming, a streaming.stopped and an
\* event of an unhandled type are answered 200 and change nothing: no call
\* is registered or ended, no call's state or record changes, no carrier
\* command is issued and no invocation is started.
C28_NoOpEventsChangeNothing ==
  [][\A e \in NoOpEvents :
       HandleWebhook(e) =>
         /\ ret'.value = "200"
         /\ UNCHANGED <<activeCalls, calls, inflight, fsmVars, bridgeVars>>]_vars

\* An outbound call.initiated was acknowledged while a call is registered
C28_Witness ==
  /\ ret = Returned("handleWebhook", "200", "outbound")
  /\ getCall(St, TheCall) # None

\* ------------------------------------------------------ plugin lifecycle
PluginFrame ==
  UNCHANGED <<now, fsmVars, telnyxClient, maxConcurrentCalls, webhookSigningSecret, audio,
              bridgeVars>>

PluginShuttingDown == \E p \in inflight : p.op = "shutdown"

\* plugin.init(context) of index.ts, with the outcome of storage.register,
\* whether an API key is configured and the result of the health check
PluginInit(storage, apiKey, healthy) ==
  /\ ~plugin.ctx /\ inflight = {}
  /\ plugin' =
       IF ~storage THEN [plugin EXCEPT !.ctx = TRUE, !.registered = @ \cup {"configSchema"}]
       ELSE IF ~apiKey \/ ~healthy
         THEN [plugin EXCEPT !.ctx = TRUE, !.registered = @ \cup {"configSchema", "storage"}]
         ELSE PluginInitialised
  /\ Commit(St)
  /\ ret' = IF storage THEN Returned("init", "void", "") ELSE Returned("init", "throw", "error")
  /\ UNCHANGED voicePlugin
  /\ PluginFrame

\* The end of plugin.shutdown: unregister through ctx if there is one,
\* then forget ctx and phoneNumberManager
unregisterAll(pl) ==
  [pl EXCEPT !.registered = IF pl.ctx THEN @ \ {"channelProvider", "extension"} ELSE @,
             !.ctx = FALSE]

\* plugin.shutdown() of index.ts up to its first await
PluginShutdown ==
  /\ ~PluginShuttingDown
  /\ IF plugin.callManager
       THEN /\ activeCallCount(St) > 0 =>
                 /\ Cardinality(inflight) + activeCallCount(St) <= MaxInflight
                 /\ \A p \in inflight : p.reason # "shutdown"
            /\ Commit([shutdownAll(St) EXCEPT
                         !.inflight = @ \cup {PluginShutdownCont("shutdownAll")}])
            /\ plugin' = plugin
            /\ ret' = NoReturn
       ELSE IF plugin.webhookHandler
         THEN /\ Commit([St EXCEPT !.inflight = @ \cup {PluginShutdownCont("webhook")}])
              /\ plugin' = plugin
              /\ ret' = NoReturn
         ELSE /\ Commit(St)
              /\ plugin' = unregisterAll(plugin)
              /\ ret' = Returned("shutdown", "void", "")
  /\ UNCHANGED voicePlugin
  /\ PluginFrame

\* shutdownAll resolved: callManager = null, then webhookHandler.shutdown()
PluginShutdown_afterShutdownAll(q) ==
  /\ q \in inflight /\ q = PluginShutdownCont("shutdownAll")
  /\ ShutdownCont \notin inflight
  /\ IF plugin.webhookHandler
       THEN /\ Commit([St EXCEPT !.inflight = (@ \ {q}) \cup {PluginShutdownCont("webhook")}])
            /\ plugin' = [plugin EXCEPT !.callManager = FALSE]
            /\ ret' = NoReturn
       ELSE /\ Commit([St EXCEPT !.inflight = @ \ {q}])
            /\ plugin' = unregisterAll([plugin EXCEPT !.callManager = FALSE])
            /\ ret' = Returned("shutdown", "void", "")
  /\ UNCHANGED voicePlugin
  /\ PluginFrame

\* the media server closed: webhookHandler = null, unregister, ctx = null
PluginShutdown_afterWebhook(q) ==
  /\ q \in inflight /\ q = PluginShutdownCont("webhook")
  /\ Commit([St EXCEPT !.inflight = @ \ {q}])
  /\ plugin' = unregisterAll([plugin EXCEPT !.webhookHandler = FALSE])
  /\ ret' = Returned("shutdown", "void", "")
  /\ UNCHANGED voicePlugin
  /\ PluginFrame

\* The voice-session plugin (the second plugin module of the repository)
VoiceStep(vp, r) ==
  /\ voicePlugin' = vp
  /\ ret' = r
  /\ Commit(St)
  /\ UNCHANGED plugin
  /\ PluginFrame

\* plugin.init(context): a2a says whether ctx.registerA2AServer exists,
\* events whether ctx.events.on exists and returns an unsubscribe function
VoiceInit(a2a, events) ==
  /\ ~voicePlugin.ctx
  /\ VoiceStep([voicePlugin EXCEPT
                  !.ctx = TRUE,
                  !.registered = @ \cup {"configSchema", "channelProvider", "extension"}
                                   \cup (IF a2a THEN {"a2a"} ELSE {}),
                  !.cleanups = IF events THEN @ + 1 ELSE @,
                  !.subscribed = @ \/ events],
               Returned("voice.init", "void", ""))

\* createVoiceSession / endVoiceSession
CreateVoiceSession(v) ==
  /\ v \notin voicePlugin.sessions
  /\ VoiceStep([voicePlugin EXCEPT !.sessions = @ \cup {v}],
               Returned("createVoiceSession", "session", ""))

EndVoiceSession(v) ==
  VoiceStep([voicePlugin EXCEPT !.sessions = @ \ {v}],
            Returned("endVoiceSession",
                     IF v \in voicePlugin.sessions THEN "true" ELSE "false", ""))

\* plugin.shutdown(): endAllVoiceSessions, run and drop the cleanups
\* (a throwing one is caught), unregister through ctx, clear module state
VoiceShutdown ==
  VoiceStep([voicePlugin EXCEPT
               !.sessions = {},
               !.subscribed = IF voicePlugin.cleanups > 0 THEN FALSE ELSE @,
               !.cleanups = 0,
               !.registered = IF voicePlugin.ctx
                                THEN @ \ {"configSchema", "channelProvider", "extension"}
                                ELSE @,
               !.ctx = FALSE],
            Returned("voice.shutdown", "void", ""))

\* The two modules are two plugins of the same name: the host exercises
\* one of them while the other is in the state it was loaded or set up in.
CoreUntouched ==
  /\ plugin = PluginInitialised
  /\ inflight = {}
  /\ \A c \in CallIds : calls[c] = NoHandle

VoiceUntouched == voicePlugin = VoicePluginLoaded

\* SpecPlugin: a plugin's init and shutdown called one after the other by
\* the host, with calls or voice sessions coming and going in between
PluginNext ==
  \/ \E storage \in BOOLEAN, apiKey \in BOOLEAN, healthy \in BOOLEAN :
       VoiceUntouched /\ PluginInit(storage, apiKey, healthy)
  \/ VoiceUntouched /\ PluginShutdown
  \/ \E q \in inflight : PluginShutdown_afterShutdownAll(q)
  \/ \E q \in inflight : PluginShutdown_afterWebhook(q)
  \/ \E id \in Ids : VoiceUntouched /\ plugin.callManager /\ RegisterInboundCall(id)
  \/ \E id \in Ids : plugin.callManager /\ EndCall(id, "hangup", TRUE)
  \/ SettleRegistration
  \/ SettleHangup
  \/ SettleEndCall
  \/ \E a2a \in BOOLEAN, events \in BOOLEAN : CoreUntouched /\ VoiceInit(a2a, events)
  \/ \E v \in 1..MaxVoiceSessions : CoreUntouched /\ CreateVoiceSession(v)
  \/ \E v \in 1..MaxVoiceSessions : CoreUntouched /\ EndVoiceSession(v)
  \/ CoreUntouched /\ VoiceShutdown

SpecPlugin == Init /\ [][PluginNext]_vars

\* What the claim counts as registered by init
Registered == {"configSchema", "channelProvider", "extension"}

\* C29: when a plugin's shutdown completes it has not failed, nothing of
\* what init registered (config schema, channel provider, extension) is
\* still registered, and no call or voice session is active; a shutdown
\* invoked after a completed one completes at once and changes nothing.
C29_ShutdownUnregistersEverything ==
  /\ [](ret.op = "shutdown" =>
          /\ ret.value = "void"
          /\ plugin.registered \cap Registered = {}
          /\ activeCallCount(St) = 0)
  /\ [](ret.op = "voice.shutdown" =>
          /\ ret.value = "void"
          /\ voicePlugin.registered \cap Registered = {}
          /\ voicePlugin.sessions = {})
  /\ [][/\ (PluginShutdown /\ ~plugin.ctx /\ ~plugin.callManager /\ ~plugin.webhookHandler) =>
             /\ ret'.value = "void"
             /\ UNCHANGED <<plugin, activeCalls, calls, inflight>>
        /\ (VoiceShutdown /\ ~voicePlugin.ctx /\ voicePlugin.sessions = {}
              /\ voicePlugin.cleanups = 0) =>
             /\ ret'.value = "void"
             /\ UNCHANGED voicePlugin]_vars

\* --------------------------------------------------------------- resample
\* A Buffer of 16-bit samples: its identity and its samples; the buffers
\* handed in are buffer 1, Buffer.alloc gives buffer 2
Buffer(id, samples) == [id |-> id, samples |-> samples, thrown |-> FALSE]

\* readInt16LE outside the buffer throws a RangeError
RangeError == [id |-> 0, samples |-> << >>, thrown |-> TRUE]

Samples == {-1, 1}

Rates == {8000, 16000, 24000}

Inputs == {Buffer(1, smp) : smp \in UNION {[1..n -> Samples] : n \in 0..MaxSamples}}

\* The loop of resample for an output of outputSamples samples: sample i is
\* the input's sample Math.min(Math.floor(i / ratio), inputSamples - 1)
resampleInto(input, fromRate, toRate, outputSamples) ==
  LET inputSamples == Len(input.samples)
      srcIdx(i) == Min((i * fromRate) \div toRate, inputSamples - 1)
      inside(i) == srcIdx(i) >= 0 /\ srcIdx(i) < inputSamples
  IN IF \E i \in 0..(outputSamples - 1) : ~inside(i) THEN RangeError
     ELSE Buffer(2, [j \in 1..outputSamples |-> input.samples[srcIdx(j - 1) + 1]])

\* resample with the number of output samples rounded up
resample_Ceil(input, fromRate, toRate) ==
  IF fromRate = toRate THEN input
  ELSE resampleInto(input, fromRate, toRate,
                    (Len(input.samples) * toRate + fromRate - 1) \div fromRate)

\* resample(input, fromRate, toRate):
\* outputSamples = Math.floor(inputSamples * (toRate / fromRate))
resample(input, fromRate, toRate) ==
  IF fromRate = toRate THEN input
  ELSE resampleInto(input, fromRate, toRate, (Len(input.samples) * toRate) \div fromRate)

Resample(input, fromRate, toRate) ==
  /\ audio' = [op |-> "resample", input |-> input, fromRate |-> fromRate,
               toRate |-> toRate, output |-> resample(input, fromRate, toRate)]
  /\ UNCHANGED <<now, fsmVars, mgrVars, maxConcurrentCalls, webhookSigningSecret, plugin,
                 voicePlugin, bridgeVars>>

\* SpecResample: resample called on every buffer and pair of rates
ResampleNext ==
  \E input \in Inputs, fromRate \in Rates, toRate \in Rates : Resample(input, fromRate, toRate)

SpecResample == Init /\ [][ResampleNext]_vars

MULAW_MAX == 8191

MULAW_BIAS == 33

\* The values readInt16LE returns
Int16 == -32768..32767

Codes == 0..255

\* MULAW_DECODE_TABLE[i], as buildMulawTable fills it: mulaw = ~i & 0xff,
\* sign = mulaw & 0x80, exponent = (mulaw >> 4) & 0x07, mantissa = mulaw & 0x0f,
\* then ((mantissa << 1) | 0x21) << exponent, minus 0x21
MULAW_DECODE_TABLE(i) ==
  LET mulaw    == 255 - i
      sign     == mulaw >= 128
      exponent == (mulaw \div 16) % 8
      mantissa == mulaw % 16
      value    == (2 * mantissa + 33) * 2^exponent - 33
  IN IF sign THEN -value ELSE value

\* The loop of encodeMulaw: from exponent 7 down, stop at the first s with
\* bit 0x4000 set, else shift s left
RECURSIVE encodeLoop(_, _)
encodeLoop(s, exponent) ==
  IF exponent > 0 /\ (s \div 16384) % 2 = 0 THEN encodeLoop(2 * s, exponent - 1)
  ELSE <<s, exponent>>

\* encodeMulaw(sample)
encodeMulaw(sample) ==
  LET sign     == IF sample < 0 THEN 128 ELSE 0
      mag      == IF sample < 0 THEN -sample ELSE sample
      s0       == Min(mag, MULAW_MAX) + MULAW_BIAS
      r        == encodeLoop(s0, 7)
      exponent == r[2]
      mantissa == (r[1] \div 2^(exponent + 3)) % 16
  IN 255 - (sign + 16 * exponent + mantissa)

\* What Init hands to the codec: one PCM sample or one mu-law byte
CodecInit ==
  /\ Built
  /\ webhookSigningSecret = FALSE
  /\ audio \in {[op |-> "pcm", value |-> v] : v \in Int16}
               \cup {[op |-> "mulaw", value |-> c] : c \in Codes}

\* mulawToPcm(pcmToMulaw(buffer)) on a buffer of that sample
PcmRoundTrip ==
  /\ audio.op = "pcm"
  /\ audio' = [op |-> "pcmToMulaw", sample |-> audio.value,
               code |-> encodeMulaw(audio.value),
               decoded |-> MULAW_DECODE_TABLE(encodeMulaw(audio.value))]
  /\ UNCHANGED <<now, fsmVars, mgrVars, maxConcurrentCalls, webhookSigningSecret, plugin,
                 voicePlugin, bridgeVars>>

\* pcmToMulaw(mulawToPcm(buffer)) on a buffer of that byte
MulawRoundTrip ==
  /\ audio.op = "mulaw"
  /\ audio' = [op |-> "mulawToPcm", code |-> audio.value,
               sample |-> MULAW_DECODE_TABLE(audio.value),
               encoded |-> encodeMulaw(MULAW_DECODE_TABLE(audio.value))]
  /\ UNCHANGED <<now, fsmVars, mgrVars, maxConcurrentCalls, webhookSigningSecret, plugin,
                 voicePlugin, bridgeVars>>

CodecNext == PcmRoundTrip \/ MulawRoundTrip

SpecCodec == CodecInit /\ [][CodecNext]_vars

Abs(x) == IF x < 0 THEN -x ELSE x

\* The quantization step of the table at magnitude m: neighbouring levels
\* of segment e are 2^(e+1) apart, segment e ending below 64 * 2^e - 33
QuantStep(m) ==
  LET e == CHOOSE x \in 0..7 :
             /\ (m + MULAW_BIAS < 64 * 2^x \/ x = 7)
             /\ \A y \in 0..(x - 1) : m + MULAW_BIAS >= 64 * 2^y
  IN 2^(e + 1)

\* C31: a sample of silence comes back from PCM -> mu-law -> PCM with a
\* magnitude below 1000; every sample of magnitude up to MULAW_MAX comes
\* back with the same sign and within one quantization step of itself;
\* and encoding the decoded value of a code gives that code back.
C31_MulawRoundTrip ==
  /\ audio.op = "pcmToMulaw" =>
       /\ audio.sample = 0 => Abs(audio.decoded) < 1000
       /\ Abs(audio.sample) <= MULAW_MAX =>
            /\ audio.sample > 0 => audio.decoded >= 0
            /\ audio.sample < 0 => audio.decoded <= 0
            /\ Abs(audio.decoded - audio.sample) <= QuantStep(Abs(audio.sample))
  /\ audio.op = "mulawToPcm" => audio.encoded = audio.code

\* C32: once cleanup has set the bridge closed, no STT session is created
\* or stored and no audio frame is sent, whatever was in flight at that
\* moment; and a closed bridge with nothing in flight holds no STT session
\* and has none open.
C32_CloseCancelsInFlight ==
  /\ [](bridge.closed /\ bridgeOps = {} =>
          /\ bridge.sttSession = 0
          /\ \A s \in DOMAIN bridge.sessions : bridge.sessions[s].closed)
  /\ [][bridge.closed =>
          /\ Len(bridge'.sessions) = Len(bridge.sessions)
          /\ bridge'.sttSession \in {0, bridge.sttSession}
          /\ bridge'.sent = bridge.sent]_vars

\* C33: at no time does the bridge have two STT sessions open, and the
\* session it holds is never replaced by a new one before it has been
\* ended and closed.
C33_OneSttSessionAtATime ==
  /\ [](Cardinality({s \in DOMAIN bridge.sessions : ~bridge.sessions[s].closed}) <= 1)
  /\ [][Len(bridge'.sessions) > Len(bridge.sessions) =>
          \A s \in DOMAIN bridge.sessions :
            bridge.sessions[s].ended /\ bridge.sessions[s].closed]_vars

\* ---------------------------------------------- transcripts and playback
\* The chunks a session hands to the callback registered with onPartial
SttChunks == [isFinal : BOOLEAN, text : {"", " ", "hello"}]

\* chunk.text.trim()
trim(text) == IF text = " " THEN "" ELSE text

\* the callback calling handleFinalTranscript for every chunk with text
OnPartial_AnyChunk(s, chunk) ==
  /\ s \in DOMAIN bridge.sessions /\ ~bridge.sessions[s].closed
  /\ IF trim(chunk.text) # ""
       THEN HandleFinalTranscript(s, MaxTurns + 1)
       ELSE /\ BCommit(BSt)
            /\ ret' = Returned("onPartial", "void", "ignored")
            /\ BridgeFrame

\* The callback startSTTSession registers with onPartial: a final chunk
\* with text left after trim() goes to handleFinalTranscript
OnPartial(s, chunk) ==
  /\ s \in DOMAIN bridge.sessions /\ ~bridge.sessions[s].closed
  /\ IF chunk.isFinal /\ trim(chunk.text) # ""
       THEN HandleFinalTranscript(s, MaxTurns + 1)
       ELSE /\ BCommit(BSt)
            /\ ret' = Returned("onPartial", "void", "ignored")
            /\ BridgeFrame

\* What the carrier sends in SpecTurns: start, stop, and inbound audio
\* while a reply is playing (the barge-in)
TurnMessages ==
  {msg \in BridgeMessages :
     \/ msg.event \in {"start", "stop"}
     \/ InboundAudio(msg) /\ bridge.playing}

\* SpecTurns: one bridge whose sessions deliver partial, blank and final
\* chunks, a final one possibly while the reply to an earlier one is still
\* being obtained, synthesized or played
TurnsNext ==
  \/ SetWebSocket
  \/ \E msg \in TurnMessages, provider \in BOOLEAN : HandleMediaMessage(msg, provider)
  \/ WsClose
  \/ \E p \in bridgeOps, provider \in BOOLEAN : SttClosed(p, provider)
  \/ \E p \in bridgeOps, ok \in BOOLEAN : SessionCreated(p, ok)
  \/ \E s \in 1..MaxSessions, chunk \in SttChunks : OnPartial(s, chunk)
  \/ \E p \in bridgeOps, reply \in {"text", "", "throw"}, tts \in BOOLEAN, provider \in BOOLEAN :
       Replied(p, reply, tts, provider)
  \/ \E p \in bridgeOps, ok \in BOOLEAN, provider \in BOOLEAN : Synthesized(p, ok, provider)
  \/ \E p \in bridgeOps, provider \in BOOLEAN : Paced(p, provider)

SpecTurns == Init /\ [][TurnsNext]_vars

\* The invocations of handleFinalTranscript that are inside playTTSResponse
Playbacks == {p \in bridgeOps : InPlayback(p)}

\* C34: at most one playback is in progress at any time; the frames of two
\* replies are never sent interleaved; and while a playback that barge-in
\* has interrupted is still in progress, the interrupted flag is not cleared.
C34_OnePlaybackAtATime ==
  /\ [](Cardinality(Playbacks) <= 1)
  /\ [](\A a, b, c \in DOMAIN bridge.sent :
          (a < b /\ b < c /\ bridge.sent[a].reply = bridge.sent[c].reply)
            => bridge.sent[b].reply = bridge.sent[a].reply)
  /\ [][(bridge.interrupted /\ Playbacks \cap Playbacks' # {}) => bridge'.interrupted]_vars

\* The frames of the reply to transcript r, in the order they were sent
FramesOf(r) == SelectSeq(bridge.sent, LAMBDA f : f.reply = r)

\* C35: the frames of a reply are sent one at a time in increasing offset
\* order, each at most FRAME_SIZE long, so that what has been sent of it is
\* always a prefix of the encoded reply; and once the bridge has been
\* interrupted or closed during its playback no further frame of that reply
\* is sent.
C35_FramesArePrefixAndStopWhenCut ==
  /\ [](\A r \in {bridge.sent[n].reply : n \in DOMAIN bridge.sent} :
          LET fs == FramesOf(r)
          IN \A n \in DOMAIN fs :
               /\ fs[n].offset = (n - 1) * FRAME_SIZE
               /\ fs[n].size \in 1..FRAME_SIZE
               /\ fs[n].offset + fs[n].size <= ReplyLength)
  /\ [][\A n \in (Len(bridge.sent) + 1)..Len(bridge'.sent) :
          bridge'.sent[n].reply \notin bridge.cut]_vars

\* C36: playing is true only while a playTTSResponse is under way (once it
\* has finished, however it finished, playing is false); and a failure of
\* transcript handling is not propagated and leaves the bridge as open as
\* it was, holding an STT session that has not been closed.
C36_PlayingOnlyDuringPlayback ==
  /\ [](bridge.playing => Playbacks # {})
  /\ [][ret' = Returned("handleFinalTranscript", "void", "error") =>
          /\ bridge'.closed = bridge.closed
          /\ ~bridge'.closed =>
                /\ bridge'.sttSession # 0
                /\ ~bridge'.sessions[bridge'.sttSession].closed]_vars

\* The invocations of handleFinalTranscript awaiting the reply callback
AwaitingReply(ops) == {p \in ops : p.op = "handleFinalTranscript" /\ p.pc = "onTranscript"}

\* C37: the reply callback is invoked by a final chunk with text on an open
\* bridge and by nothing else: a partial or blank chunk changes nothing, a
\* final one reaching a closed bridge starts nothing; and when the callback
\* returns no text, or returns on a closed bridge, the turn ends there: the
\* bridge is left as it was (nothing synthesized, no frame sent, the STT
\* session neither closed nor replaced).
C37_OnlyFinalTranscriptsReply ==
  [][/\ \A s \in 1..MaxSessions, chunk \in SttChunks :
          OnPartial(s, chunk) =>
            IF chunk.isFinal /\ trim(chunk.text) # ""
              THEN /\ bridge' = [bridge EXCEPT !.turns = @ + 1]
                   /\ IF bridge.closed
                        THEN bridgeOps' = bridgeOps
                        ELSE /\ bridgeOps \subseteq bridgeOps'
                             /\ Cardinality(bridgeOps' \ bridgeOps) = 1
                             /\ bridgeOps' \ bridgeOps \subseteq AwaitingReply(bridgeOps')
              ELSE bridge' = bridge /\ bridgeOps' = bridgeOps
     /\ AwaitingReply(bridgeOps') \ AwaitingReply(bridgeOps) # {} =>
          \E s \in 1..MaxSessions, chunk \in SttChunks :
            chunk.isFinal /\ trim(chunk.text) # "" /\ OnPartial(s, chunk)
     /\ ret' = Returned("handleFinalTranscript", "void", "skipped") =>
          /\ bridge' = bridge
          /\ bridgeOps' \subseteq bridgeOps
          /\ bridgeOps \ bridgeOps' \subseteq AwaitingReply(bridgeOps)]_vars

\* the callback returned no text on an open bridge: the turn has ended, the
\* session that delivered the transcript is still held and open, nothing
\* was sent
C37_Witness ==
  /\ ret = Returned("handleFinalTranscript", "void", "skipped")
  /\ ~bridge.closed /\ bridge.turns > 0 /\ ~bridge.playing
  /\ bridge.sttSession # 0 /\ ~bridge.sessions[bridge.sttSession].closed
  /\ bridge.sent = << >>

\* ------------------------------------------ the media socket of a call
\* A message the carrier sends after the start message that attached the
\* socket: inbound audio, delivered to the listener setWebSocket registered
\* (handleMediaMessage, case "media")
BridgeMedia(c) ==
  /\ calls[c].bridge.ws /\ calls[c].bridge.sock = "open"
  /\ calls[c].bridge.sttSession # 0 =>
       calls[c].bridge.sessions[calls[c].bridge.sttSession].audio < MaxAudio
  /\ IF calls[c].bridge.closed
       THEN /\ Commit(St)
            /\ ret' = Returned("handleMediaMessage", "void", "closed")
       ELSE /\ Commit([St EXCEPT !.calls[c].bridge =
                         handleMedia(@, [event |-> "media", track |-> "inbound",
                                         chunk |-> TRUE])])
            /\ ret' = Returned("handleMediaMessage", "void", "media")
  /\ Frame

\* SpecMedia: the life of one call with its media socket: the start message
\* goes to the listener of startMediaWsServer, which attaches the socket to
\* the bridge of the call it names; the messages after it go to the bridge
MediaNext == CallNext \/ \E c \in CallIds : BridgeMedia(c)

SpecMedia == Init /\ [][MediaNext]_vars

\* The STT audio a bridge has forwarded
Forwarded(b) ==
  IF b.sttSession = 0 THEN 0 ELSE b.sessions[b.sttSession].audio

\* C38: the bridge the start message of the media socket attached has
\* handled that start message: it has recorded the stream identifier, and
\* the inbound audio that follows on the open bridge is forwarded to an STT
\* session, not dropped.
C38_AttachingStartIsHandled ==
  /\ [](\A c \in CallIds :
          (calls[c].bridge.ws /\ calls[c].bridge.sock = "open" /\ ~calls[c].bridge.closed)
            => calls[c].bridge.streamId)
  /\ [][\A c \in CallIds :
          (BridgeMedia(c) /\ ~calls[c].bridge.closed)
            => /\ calls'[c].bridge.sttSession # 0
               /\ Forwarded(calls'[c].bridge) = Forwarded(calls[c].bridge) + 1]_vars

\* ------------------------------------------- registrations of a live ID
\* The deployment that does not set config.maxConcurrentCalls: the cap is
\* the default one, above the number of handles explored
DefaultCapInit ==
  /\ now = 1
  /\ smInitial = "ringing"
  /\ sm = CallStateMachine(smInitial)
  /\ smOk = 0
  /\ smLast = [op |-> "none", to |-> "ringing", result |-> "none"]
  /\ MgrIdle
  /\ maxConcurrentCalls = 0
  /\ bridge = AudioBridge
  /\ bridgeOps = {}
  /\ plugin = PluginInitialised
  /\ voicePlugin = VoicePluginLoaded
  /\ audio = [op |-> "none"]
  /\ webhookSigningSecret = FALSE

\* SpecDuplicates: the registry of SpecRegistry under the default cap, where
\* an ID that is in the registry can be registered again
SpecDuplicates == DefaultCapInit /\ [][RegistryNext]_vars

\* The registrations suspended before their catch block
Registering == {p \in inflight : p.op \in {"registerInboundCall", "initiateOutboundCall"}
                                  /\ p.pc \in {"insert", "emit"}}

\* C39: a call-control ID has at most one live handle: a registration of
\* an ID that is in the registry never replaces the handle registered
\* there; no handle is out of the registry with its bridge open and no
\* endCall under way to tear it down; and a registration that fails
\* removes from the registry no handle but its own.
C39_OneLiveHandlePerId ==
  /\ [][\A id \in Ids :
          activeCalls[id] # None => activeCalls'[id] \in {activeCalls[id], None}]_vars
  /\ [](\A c \in CallIds :
          (calls[c].ccid # NoId /\ activeCalls[calls[c].ccid] # c /\ ~calls[c].bridge.closed)
            => \E p \in inflight : p.op = "endCall" /\ p.call = c)
  /\ [][\A p \in Registering :
          (p \notin inflight' /\ activeCalls'[p.id] # activeCalls[p.id])
            => activeCalls[p.id] = p.call]_vars

\* C40: for every call the record insert and 'voice-call:started' precede
\* the record update and 'voice-call:ended' of its termination; the handle
\* registerInboundCall returns is in the registry when it is returned,
\* whatever endCall did while the registration was suspended; and the
\* dispatcher issues the answer command only for a call that has not been
\* ended.
C40_RegistrationPrecedesTermination ==
  /\ [](\A c \in CallIds :
          (calls[c].db.updates > 0 \/ calls[c].ev.ended > 0)
            => (calls[c].db.inserted /\ calls[c].ev.started > 0))
  /\ [][\A p \in inflight \ inflight' :
          (p.op = "registerInboundCall" /\ p.pc = "emit" /\ calls'[p.call].reg = "ok")
            => activeCalls'[p.id] = p.call]_vars
  /\ [][\A c \in CallIds :
          calls'[c].answers > calls[c].answers
            => (activeCalls[calls[c].ccid] = c /\ calls[c].record.endedAt = 0)]_vars
====
